---- MODULE Spec2Model ----
(***************************************************************************)
(* A model of airscan-discover: the WS-Discovery engine (wsdd.go), the     *)
(* path XML decoder (xml.go) and the aggregation loop of main (main.go).   *)
(*                                                                         *)
(* Strings are sequences of lexemes.  A lexeme is either a delimiter the   *)
(* code looks at (" ", "\n", ":", "://", "[", "]", "%", "%25") or a        *)
(* maximal run of other characters (a URL path is one run), so that two    *)
(* equal Go strings have                                                   *)
(* equal lexeme sequences and strings.Fields, strings.Index, TrimSpace,    *)
(* LastIndexByte and Trim act on lexemes as they act on bytes.             *)
(***************************************************************************)
EXTENDS Integers, Sequences, FiniteSets, TLC

(***************************************************************************)
(* Bounds of the input spaces.                                             *)
(***************************************************************************)
\* tokens in one XAddrs list
MaxXAddrs == 2
\* Hosted blocks in one GetResponse
MaxHosted == 2

(***************************************************************************)
(* String helpers (package strings / bytes).                               *)
(***************************************************************************)
Space == {" ", "\n"}

Range(s) == {s[i] : i \in DOMAIN s}

RECURSIVE TrimLeft(_)
TrimLeft(s) ==
    IF s # << >> /\ Head(s) \in Space THEN TrimLeft(Tail(s)) ELSE s

RECURSIVE TrimRight(_)
TrimRight(s) ==
    IF s # << >> /\ s[Len(s)] \in Space
    THEN TrimRight(SubSeq(s, 1, Len(s) - 1))
    ELSE s

\* bytes.TrimSpace
TrimSpace(s) == TrimRight(TrimLeft(s))

\* strings.Fields: the maximal runs of non-space lexemes, in order
RECURSIVE FieldsFrom(_, _, _)
FieldsFrom(s, cur, acc) ==
    IF s = << >>
    THEN IF cur = << >> THEN acc ELSE Append(acc, cur)
    ELSE IF Head(s) \in Space
         THEN FieldsFrom(Tail(s), << >>,
                         IF cur = << >> THEN acc ELSE Append(acc, cur))
         ELSE FieldsFrom(Tail(s), Append(cur, Head(s)), acc)

Fields(s) == FieldsFrom(s, << >>, << >>)

\* strings.Index(s, sub) for a one-lexeme sub: first position from 0, or -1
StrIndex(s, sub) ==
    IF \E i \in DOMAIN s : s[i] = sub
    THEN (CHOOSE i \in DOMAIN s :
             s[i] = sub /\ \A j \in 1..(i - 1) : s[j] # sub) - 1
    ELSE -1

\* strings.LastIndexByte(s, c): last position from 0, or -1
LastIndexByte(s, c) ==
    IF \E i \in DOMAIN s : s[i] = c
    THEN (CHOOSE i \in DOMAIN s :
             s[i] = c /\ \A j \in (i + 1)..Len(s) : s[j] # c) - 1
    ELSE -1

\* strings.Trim(s, "[]")
RECURSIVE TrimBrackets(_)
TrimBrackets(s) ==
    IF s # << >> /\ Head(s) \in {"[", "]"} THEN TrimBrackets(Tail(s))
    ELSE IF s # << >> /\ s[Len(s)] \in {"[", "]"}
         THEN TrimBrackets(SubSeq(s, 1, Len(s) - 1))
         ELSE s

\* s with every lexeme a replaced by b
Replace(s, a, b) == [i \in DOMAIN s |-> IF s[i] = a THEN b ELSE s[i]]

RECURSIVE Flatten(_)
Flatten(ss) == IF ss = << >> THEN << >> ELSE Head(ss) \o Flatten(Tail(ss))

\* the words of ws joined by single spaces
RECURSIVE JoinFields(_)
JoinFields(ws) ==
    IF ws = << >> THEN << >>
    ELSE IF Len(ws) = 1 THEN ws[1]
         ELSE ws[1] \o <<" ">> \o JoinFields(Tail(ws))

(***************************************************************************)
(* net/url and net, as far as fixIpv6URLZone uses them.                    *)
(***************************************************************************)
Digits == {"5358", "80"}
PathLexemes == {"/x", "/WSDScanner", "/WSDScanner2"}

\* net.ParseIP: the textual forms it accepts, each with its canonical
\* form (what IP.String() prints); anything else is nil (<< >>).  A zone
\* suffix is not accepted.
ParseIP(s) ==
    CASE s = <<"fe80", ":", ":", "1">>  -> <<"fe80", ":", ":", "1">>
      [] s = <<"FE80", ":", ":", "1">>  -> <<"fe80", ":", ":", "1">>
      [] s = <<"2001", ":", "db8", ":", ":", "1">>
                                        -> <<"2001", ":", "db8", ":", ":", "1">>
      [] OTHER                          -> << >>

\* net.IP.IsLinkLocalUnicast (fe80::/10)
IsLinkLocalUnicast(ip) == ip # << >> /\ ip[1] = "fe80"

\* url.validOptionalPort: "" or ":" followed by digits
ValidOptionalPort(p) ==
    \/ p = << >>
    \/ p = <<":">>
    \/ Len(p) = 2 /\ p[1] = ":" /\ p[2] \in Digits

\* url.parseHost: the checks on the authority and the unescaping of %25
HostOK(h) ==
    /\ "%" \notin Range(h)
    /\ IF h # << >> /\ h[1] = "["
       THEN /\ "]" \in Range(h)
            /\ ValidOptionalPort(
                   SubSeq(h, LastIndexByte(h, "]") + 2, Len(h)))
       ELSE \/ ":" \notin Range(h)
            \/ ValidOptionalPort(SubSeq(h, LastIndexByte(h, ":") + 1, Len(h)))

\* the position of the first lexeme of the path in s, or Len(s) + 1
PathStart(s) ==
    IF \E i \in DOMAIN s : s[i] \in PathLexemes
    THEN CHOOSE i \in DOMAIN s :
             s[i] \in PathLexemes /\ \A j \in 1..(i - 1) : s[j] \notin PathLexemes
    ELSE Len(s) + 1

\* strings.ToLower on a scheme (url.getScheme's callers lower-case it)
ToLower(x) == IF x = "HTTP" THEN "http" ELSE x

\* url.Parse
URLParse(rawurl) ==
    IF Len(rawurl) >= 2 /\ rawurl[2] = "://"
    THEN LET rest == SubSeq(rawurl, 3, Len(rawurl))
             p    == PathStart(rest)
             h    == SubSeq(rest, 1, p - 1)
         IN  IF HostOK(h)
             THEN [err |-> "", Scheme |-> ToLower(rawurl[1]),
                   Host |-> Replace(h, "%25", "%"),
                   Path |-> SubSeq(rest, p, Len(rest))]
             ELSE [err |-> "parse", Scheme |-> "", Host |-> << >>,
                   Path |-> << >>]
    ELSE IF ":" \in Range(rawurl) \/ "://" \in Range(rawurl)
         THEN [err |-> "parse", Scheme |-> "", Host |-> << >>, Path |-> << >>]
         ELSE [err |-> "", Scheme |-> "", Host |-> << >>, Path |-> rawurl]

\* URL.String
URLString(u) ==
    <<u.Scheme, "://">> \o Replace(u.Host, "%", "%25") \o u.Path

\* fmt.Sprintf("[%s%%%s]:%s", ip, zone, port)
ZonedHost(ip, zone, port) ==
    <<"[">> \o ip \o <<"%", zone, "]", ":">> \o port

\* a mutation of fixIpv6URLZone: an error is answered with the input
fixIpv6URLZoneLenient(rawurl, zone) ==
    [err |-> "", url |-> rawurl]

fixIpv6URLZone(rawurl, zone) ==
    LET parsed == URLParse(rawurl)
        i      == LastIndexByte(parsed.Host, ":")
        host   == IF i < 0 THEN parsed.Host ELSE SubSeq(parsed.Host, 1, i)
        port   == IF i < 0 THEN << >>
                  ELSE SubSeq(parsed.Host, i + 2, Len(parsed.Host))
        ip     == ParseIP(TrimBrackets(host))
    IN  IF parsed.err # "" THEN [err |-> parsed.err, url |-> << >>]
        ELSE IF parsed.Scheme = ""
        THEN [err |-> "Invalid URL: not absolute", url |-> << >>]
        ELSE IF ~(host # << >> /\ host[1] = "[")
        THEN [err |-> "", url |-> rawurl]
        ELSE IF ip = << >>
        THEN [err |-> "Invalid URL: bad IPv6 address", url |-> << >>]
        ELSE IF IsLinkLocalUnicast(ip)
        THEN [err |-> "",
              url |-> URLString([parsed EXCEPT !.Host =
                                    ZonedHost(ip, zone, port)])]
        ELSE [err |-> "", url |-> rawurl]

(***************************************************************************)
(* encoding/xml delivers a document as a token stream: start and end       *)
(* elements (a self-closing element is a start followed by an end),        *)
(* character data, and other tokens (comments, processing instructions);   *)
(* a syntax error (unexpected EOF, mismatched end tag) is an error         *)
(* returned by Token() in place of the token where it is detected.         *)
(***************************************************************************)
StartElement(space, local) ==
    [k |-> "start", space |-> space, local |-> local, text |-> << >>]
EndElement == [k |-> "end", space |-> "", local |-> "", text |-> << >>]
CharData(text) == [k |-> "chardata", space |-> "", local |-> "", text |-> text]
ProcInst == [k |-> "procinst", space |-> "", local |-> "", text |-> << >>]
SyntaxError == [k |-> "error", space |-> "", local |-> "", text |-> << >>]
NL == CharData(<<"\n">>)

\* <space:local>text</space:local>; no character data token for empty text
Leaf(space, local, text) ==
    <<StartElement(space, local)>>
    \o (IF text = << >> THEN << >> ELSE <<CharData(text)>>)
    \o <<EndElement>>

NsSoap == "http://www.w3.org/2003/05/soap-envelope"
NsDisc == "http://schemas.xmlsoap.org/ws/2005/04/discovery"
NsAddr == "http://schemas.xmlsoap.org/ws/2004/08/addressing"
NsDevprof == "http://schemas.xmlsoap.org/ws/2006/02/devprof"
NsMex == "http://schemas.xmlsoap.org/ws/2004/09/mex"
NsPnpx == "http://schemas.microsoft.com/windows/pnpx/2005/10"
NsSoapS == "https://www.w3.org/2003/05/soap-envelope"
NsDiscS == "https://schemas.xmlsoap.org/ws/2005/04/discovery"
NsAddrS == "https://schemas.xmlsoap.org/ws/2004/08/addressing"
NsDevprofS == "https://schemas.xmlsoap.org/ws/2006/02/devprof"
NsMexS == "https://schemas.xmlsoap.org/ws/2004/09/mex"
NsPnpxS == "https://schemas.microsoft.com/windows/pnpx/2005/10"
\* a namespace wsddNsMap does not list
NsScan == "http://schemas.microsoft.com/windows/2006/08/wdp/scan"

wsddNsMap ==
    (NsSoap :> "s") @@ (NsSoapS :> "s") @@ (NsDisc :> "d") @@ (NsDiscS :> "d")
    @@ (NsAddr :> "a") @@ (NsAddrS :> "a")
    @@ (NsDevprof :> "devprof") @@ (NsDevprofS :> "devprof")
    @@ (NsMex :> "mex") @@ (NsMexS :> "mex")
    @@ (NsPnpx :> "pnpx") @@ (NsPnpxS :> "pnpx")

(***************************************************************************)
(* xml.go.  An element is [Path, Text, Parent, Children]; Parent and       *)
(* Children are positions in the returned sequence, 0 for nil.             *)
(***************************************************************************)
\* a mutation of AddToAncestors: the element is appended to the Children
\* of its parent alone
AddToParentOnly(elements, p, n) ==
    IF p = 0 THEN elements
    ELSE [elements EXCEPT ![p].Children = Append(@, n)]

\* for p := elem.Parent; p != nil; p = p.Parent { p.Children = append(...) }
RECURSIVE AddToAncestors(_, _, _)
AddToAncestors(elements, p, n) ==
    IF p = 0 THEN elements
    ELSE AddToAncestors(
             [elements EXCEPT ![p].Children = Append(@, n)],
             elements[p].Parent, n)

\* a mutation of XMLToken: on a syntax error the elements decoded so far
\* are returned with the error
XMLTokenKeepElements(ns, st, t) ==
    CASE t.k = "error" ->
            [st EXCEPT !.err = "XML syntax error"]
      [] t.k = "start" ->
            LET prefix == IF t.space \in DOMAIN ns THEN ns[t.space] ELSE "-"
                path2  == st.path \o <<"/", prefix, ":", t.local>>
                new    == [Path |-> path2, Text |-> << >>, Parent |-> st.elem,
                           Children |-> << >>]
                n      == Len(st.elements) + 1
            IN  [st EXCEPT !.elements =
                               AddToAncestors(Append(@, new), st.elem, n),
                           !.elem = n, !.path = path2]
      [] t.k = "end" ->
            LET parent == st.elements[st.elem].Parent
            IN  [st EXCEPT !.elem = parent,
                           !.path = IF parent # 0
                                    THEN SubSeq(@, 1, Len(st.elements[parent].Path))
                                    ELSE << >>]
      [] t.k = "chardata" ->
            IF st.elem # 0
            THEN [st EXCEPT !.elements[st.elem].Text = TrimSpace(t.text)]
            ELSE st
      [] OTHER -> st

\* a mutation of XMLToken: the path buffer is not truncated at an end tag
XMLTokenNoTruncate(ns, st, t) ==
    CASE t.k = "error" ->
            [st EXCEPT !.err = "XML syntax error", !.elements = << >>]
      [] t.k = "start" ->
            LET prefix == IF t.space \in DOMAIN ns THEN ns[t.space] ELSE "-"
                path2  == st.path \o <<"/", prefix, ":", t.local>>
                new    == [Path |-> path2, Text |-> << >>, Parent |-> st.elem,
                           Children |-> << >>]
                n      == Len(st.elements) + 1
            IN  [st EXCEPT !.elements =
                               AddToAncestors(Append(@, new), st.elem, n),
                           !.elem = n, !.path = path2]
      [] t.k = "end" ->
            [st EXCEPT !.elem = st.elements[st.elem].Parent]
      [] t.k = "chardata" ->
            IF st.elem # 0
            THEN [st EXCEPT !.elements[st.elem].Text = TrimSpace(t.text)]
            ELSE st
      [] OTHER -> st

\* one turn of the token loop of XMLDecode on the token t; the decoder's
\* variables are st = [err, elements, elem, path]
XMLToken(ns, st, t) ==
    CASE t.k = "error" ->
            [st EXCEPT !.err = "XML syntax error", !.elements = << >>]
      [] t.k = "start" ->
            LET prefix == IF t.space \in DOMAIN ns THEN ns[t.space] ELSE "-"
                path2  == st.path \o <<"/", prefix, ":", t.local>>
                new    == [Path |-> path2, Text |-> << >>, Parent |-> st.elem,
                           Children |-> << >>]
                n      == Len(st.elements) + 1
            IN  [st EXCEPT !.elements =
                               AddToAncestors(Append(@, new), st.elem, n),
                           !.elem = n, !.path = path2]
      [] t.k = "end" ->
            LET parent == st.elements[st.elem].Parent
            IN  [st EXCEPT !.elem = parent,
                           !.path = IF parent # 0
                                    THEN SubSeq(@, 1, Len(st.elements[parent].Path))
                                    ELSE << >>]
      [] t.k = "chardata" ->
            IF st.elem # 0
            THEN [st EXCEPT !.elements[st.elem].Text = TrimSpace(t.text)]
            ELSE st
      [] OTHER -> st

RECURSIVE XMLDecodeLoop(_, _, _, _)
XMLDecodeLoop(ns, tokens, k, st) ==
    IF st.err # "" \/ k > Len(tokens) THEN st
    ELSE XMLDecodeLoop(ns, tokens, k + 1, XMLToken(ns, st, tokens[k]))

XMLDecode(ns, tokens) ==
    LET st == XMLDecodeLoop(ns, tokens, 1,
                  [err |-> "", elements |-> << >>, elem |-> 0, path |-> << >>])
    IN  [err |-> st.err, elements |-> st.elements]

\* the path "/p1:l1/p2:l2..." of the qualified names names
RECURSIVE XPath(_)
XPath(names) ==
    IF names = << >> THEN << >>
    ELSE <<"/", names[1][1], ":", names[1][2]>> \o XPath(Tail(names))

(***************************************************************************)
(* The messages on the wire (spec of the formats: the element paths the    *)
(* handlers switch on, and the templates of wsdd.go).                      *)
(***************************************************************************)
ActProbeMatches ==
    <<"http", "://", "schemas.xmlsoap.org", "/ws/2005/04/discovery/ProbeMatches">>
ActProbeMatchesS ==
    <<"https", "://", "schemas.xmlsoap.org", "/ws/2005/04/discovery/ProbeMatches">>
ActHello ==
    <<"http", "://", "schemas.xmlsoap.org", "/ws/2005/04/discovery/Hello">>
ActGetResponse ==
    <<"http", "://", "schemas.xmlsoap.org", "/ws/2004/09/transfer/GetResponse">>
ActGetResponseS ==
    <<"https", "://", "schemas.xmlsoap.org", "/ws/2004/09/transfer/GetResponse">>
ActFault ==
    <<"http", "://", "schemas.xmlsoap.org", "/ws/2004/08/addressing/fault">>

\* one d:ProbeMatch entry [address, types, xaddrs]; hasTypes = FALSE leaves
\* the d:Types element out, hasAddress = FALSE the a:EndpointReference
ProbeMatchTokens(e) ==
    <<StartElement(NsDisc, "ProbeMatch"), NL>>
    \o (IF e.hasAddress
        THEN <<StartElement(NsAddr, "EndpointReference")>>
             \o Leaf(NsAddr, "Address", e.address)
             \o <<EndElement, NL>>
        ELSE << >>)
    \o (IF e.hasTypes THEN Leaf(NsDisc, "Types", e.types) ELSE << >>)
    \o <<NL>>
    \o Leaf(NsDisc, "XAddrs", e.xaddrs)
    \o Leaf(NsDisc, "MetadataVersion", <<"1">>)
    \o <<NL, EndElement>>

RECURSIVE ProbeMatchesBody(_)
ProbeMatchesBody(entries) ==
    IF entries = << >> THEN << >>
    ELSE ProbeMatchTokens(Head(entries)) \o <<NL>>
         \o ProbeMatchesBody(Tail(entries))

\* the datagram d = [action, entries, broken] as encoding/xml tokenizes it;
\* a broken datagram ends inside the body (unexpected EOF)
DatagramTokens(d) ==
    <<ProcInst, NL, StartElement(NsSoap, "Envelope"), NL, StartElement(NsSoap, "Header")>>
    \o Leaf(NsAddr, "Action", d.action)
    \o Leaf(NsAddr, "MessageID", <<"urn", ":", "uuid", ":", "m1">>)
    \o <<EndElement, NL, StartElement(NsSoap, "Body"), StartElement(NsDisc, "ProbeMatches"), NL>>
    \o ProbeMatchesBody(d.entries)
    \o (IF d.broken THEN <<SyntaxError>> ELSE <<EndElement, EndElement, NL, EndElement, NL>>)

\* one devprof:Hosted block [address, types, hasTypes, typesFirst]
HostedTokens(h) ==
    LET ref   == <<StartElement(NsAddr, "EndpointReference")>>
                 \o Leaf(NsAddr, "Address", h.address) \o <<EndElement, NL>>
        types == IF h.hasTypes THEN Leaf(NsDevprof, "Types", h.types) \o <<NL>>
                 ELSE << >>
    IN  <<StartElement(NsDevprof, "Hosted"), NL>>
        \o (IF h.typesFirst THEN types \o ref ELSE ref \o types)
        \o Leaf(NsDevprof, "ServiceId", <<"uri", ":", "4509a320">>)
        \o Leaf(NsScan, "Extension", <<"x">>)
        \o <<NL, EndElement>>

RECURSIVE RelationshipBody(_)
RelationshipBody(hosted) ==
    IF hosted = << >> THEN << >>
    ELSE HostedTokens(Head(hosted)) \o <<NL>> \o RelationshipBody(Tail(hosted))

\* the devprof:Host block of the device itself; its Address is no Hosted one
HostTokens ==
    <<StartElement(NsDevprof, "Host"), StartElement(NsAddr, "EndpointReference")>>
    \o Leaf(NsAddr, "Address", <<"urn", ":", "uuid", ":", "host">>)
    \o <<EndElement>>
    \o Leaf(NsDevprof, "Types", <<"wscn", ":", "ScannerServiceType">>)
    \o <<EndElement, NL>>

\* the GetResponse body b = [action, manufacturer, model, hosted, broken]
ResponseTokens(b) ==
    <<ProcInst, StartElement(NsSoap, "Envelope"), NL, StartElement(NsSoap, "Header")>>
    \o Leaf(NsAddr, "Action", b.action)
    \o <<EndElement, NL, StartElement(NsSoap, "Body"), StartElement(NsMex, "Metadata"), NL,
         StartElement(NsMex, "MetadataSection"), StartElement(NsDevprof, "ThisModel")>>
    \o Leaf(NsDevprof, "Manufacturer", b.manufacturer)
    \o <<NL>>
    \o Leaf(NsDevprof, "ModelName", b.model)
    \o <<EndElement, EndElement, NL,
         StartElement(NsMex, "MetadataSection"), StartElement(NsDevprof, "Relationship")>>
    \o HostTokens
    \o RelationshipBody(b.hosted)
    \o (IF b.broken THEN <<SyntaxError>> ELSE <<EndElement, EndElement, EndElement, EndElement, NL, EndElement>>)

(***************************************************************************)
(* wsdd.go: parseHosted and getMetadata.                                   *)
(***************************************************************************)
PathAction == XPath(<<<<"s", "Envelope">>, <<"s", "Header">>, <<"a", "Action">>>>)
PathMetaSection ==
    XPath(<<<<"s", "Envelope">>, <<"s", "Body">>, <<"mex", "Metadata">>,
            <<"mex", "MetadataSection">>>>)
PathManufacturer ==
    PathMetaSection
    \o XPath(<<<<"devprof", "ThisModel">>, <<"devprof", "Manufacturer">>>>)
PathModelName ==
    PathMetaSection
    \o XPath(<<<<"devprof", "ThisModel">>, <<"devprof", "ModelName">>>>)
PathHosted ==
    PathMetaSection
    \o XPath(<<<<"devprof", "Relationship">>, <<"devprof", "Hosted">>>>)
PathHostedTypes == PathHosted \o XPath(<<<<"devprof", "Types">>>>)
PathHostedAddress ==
    PathHosted \o XPath(<<<<"a", "EndpointReference">>, <<"a", "Address">>>>)

\* the loop of parseHosted over elem.Children, from position k
RECURSIVE ParseHostedLoop(_, _, _, _)
ParseHostedLoop(all, children, k, acc) ==
    IF k > Len(children) THEN acc
    ELSE LET elem == all[children[k]] IN
         ParseHostedLoop(all, children, k + 1,
            IF elem.Path = PathHostedTypes
            THEN [acc EXCEPT !.types = elem.Text]
            ELSE IF elem.Path = PathHostedAddress
            THEN [acc EXCEPT !.urls = Append(@, elem.Text)]
            ELSE acc)

\* a mutation of parseHosted: the Types check is left out
parseHostedAnyType(all, children) ==
    ParseHostedLoop(all, children, 1, [types |-> << >>, urls |-> << >>]).urls

parseHosted(all, children) ==
    LET r == ParseHostedLoop(all, children, 1, [types |-> << >>, urls |-> << >>])
    IN  IF StrIndex(r.types, "ScannerServiceType") < 0 THEN << >> ELSE r.urls

\* the decoding loop of getMetadata, from position k
RECURSIVE MetadataLoop(_, _, _)
MetadataLoop(elements, k, acc) ==
    IF k > Len(elements) THEN acc
    ELSE LET elem == elements[k] IN
         MetadataLoop(elements, k + 1,
            IF elem.Path = PathAction
            THEN [acc EXCEPT !.action = elem.Text]
            ELSE IF elem.Path = PathManufacturer
            THEN [acc EXCEPT !.manufacturer = elem.Text]
            ELSE IF elem.Path = PathModelName
            THEN [acc EXCEPT !.model = elem.Text]
            ELSE IF elem.Path = PathHosted
            THEN [acc EXCEPT !.urls = @ \o parseHosted(elements, elem.Children)]
            ELSE acc)

Endpoint(proto, name, url) == [Proto |-> proto, Name |-> name, URL |-> url]

\* a mutation of EndpointName: the manufacturer is never put in front
EndpointNameModelOnly(manufacturer, model) == model

\* a mutation of EndpointName: the space is left out
EndpointNameNoSpace(manufacturer, model) ==
    IF manufacturer # << >> THEN manufacturer \o model ELSE model

\* if manufacturer != "" { model = manufacturer + " " + model }
EndpointName(manufacturer, model) ==
    IF manufacturer # << >> THEN manufacturer \o <<" ">> \o model ELSE model

\* a mutation of the checks of getMetadata: a blank name is let through
MetadataChecksNoName(m) ==
    /\ m.action \in {ActGetResponse, ActGetResponseS}
    /\ Len(m.urls) # 0

\* the checks of getMetadata on the decoded response ("Check results")
MetadataChecks(m) ==
    /\ m.action \in {ActGetResponse, ActGetResponseS}
    /\ ~(m.model = << >> /\ m.manufacturer = << >>)
    /\ Len(m.urls) # 0

\* getMetadata from the return of http.Post on, the outcome o of the HTTP
\* exchange given: what it logs of the decoded response (urls) and the
\* endpoints it returns.  o.kind is "post" (http.Post failed), "read"
\* (reading the body failed) or "ok".
getMetadataResult(o) ==
    IF o.kind # "ok" THEN [urls |-> << >>, endpoints |-> << >>]
    ELSE LET dec == XMLDecode(wsddNsMap, ResponseTokens(o.body)) IN
    IF dec.err # "" THEN [urls |-> << >>, endpoints |-> << >>]
    ELSE LET m == MetadataLoop(dec.elements, 1,
                     [action |-> << >>, manufacturer |-> << >>,
                      model |-> << >>, urls |-> << >>])
             name == EndpointName(m.manufacturer, m.model)
         IN  [urls |-> m.urls,
              endpoints |->
                  IF MetadataChecks(m)
                  THEN [j \in 1..Len(m.urls) |-> Endpoint("wsd", name, m.urls[j])]
                  ELSE << >>]

(***************************************************************************)
(* wsdd.go: handleUDPMessage, the part before the first shared access.     *)
(***************************************************************************)
PathProbeMatch ==
    XPath(<<<<"s", "Envelope">>, <<"s", "Body">>, <<"d", "ProbeMatches">>,
            <<"d", "ProbeMatch">>>>)
PathTypes == PathProbeMatch \o XPath(<<<<"d", "Types">>>>)
PathXAddrs == PathProbeMatch \o XPath(<<<<"d", "XAddrs">>>>)
PathAddress ==
    PathProbeMatch \o XPath(<<<<"a", "EndpointReference">>, <<"a", "Address">>>>)

\* a mutation of the XAddrs loop: a token that fails repair ends the loop
RECURSIVE XAddrsLoopStopAtError(_, _, _, _)
XAddrsLoopStopAtError(urls, k, zone, xaddrs) ==
    IF k > Len(urls) THEN xaddrs
    ELSE LET fixed == fixIpv6URLZone(urls[k], zone) IN
         IF fixed.err # "" THEN xaddrs
         ELSE XAddrsLoopStopAtError(urls, k + 1, zone, Append(xaddrs, fixed.url))

\* for _, url := range strings.Fields(elem.Text), from position k
RECURSIVE XAddrsLoop(_, _, _, _)
XAddrsLoop(urls, k, zone, xaddrs) ==
    IF k > Len(urls) THEN xaddrs
    ELSE LET fixed == fixIpv6URLZone(urls[k], zone) IN
         XAddrsLoop(urls, k + 1, zone,
            IF fixed.err # "" THEN xaddrs ELSE Append(xaddrs, fixed.url))

\* a mutation of MessageLoop: the XAddrs of an entry replace those of the
\* entries before it
RECURSIVE MessageLoopLastXAddrs(_, _, _, _)
MessageLoopLastXAddrs(elements, k, zone, acc) ==
    IF k > Len(elements) THEN acc
    ELSE LET elem == elements[k] IN
         MessageLoopLastXAddrs(elements, k + 1, zone,
            IF elem.Path = PathAction
            THEN [acc EXCEPT !.action = elem.Text]
            ELSE IF elem.Path = PathTypes
            THEN [acc EXCEPT !.types = elem.Text]
            ELSE IF elem.Path = PathXAddrs
            THEN [acc EXCEPT !.xaddrs =
                     XAddrsLoop(Fields(elem.Text), 1, zone, << >>)]
            ELSE IF elem.Path = PathAddress
            THEN [acc EXCEPT !.address = elem.Text]
            ELSE acc)

\* the decoding loop of handleUDPMessage, from position k
RECURSIVE MessageLoop(_, _, _, _)
MessageLoop(elements, k, zone, acc) ==
    IF k > Len(elements) THEN acc
    ELSE LET elem == elements[k] IN
         MessageLoop(elements, k + 1, zone,
            IF elem.Path = PathAction
            THEN [acc EXCEPT !.action = elem.Text]
            ELSE IF elem.Path = PathTypes
            THEN [acc EXCEPT !.types = elem.Text]
            ELSE IF elem.Path = PathXAddrs
            THEN [acc EXCEPT !.xaddrs =
                     XAddrsLoop(Fields(elem.Text), 1, zone, @)]
            ELSE IF elem.Path = PathAddress
            THEN [acc EXCEPT !.address = elem.Text]
            ELSE acc)

\* handleUDPMessage up to the duplicate check, for the datagram d received
\* on a socket of the given zone: the XML error, or the decoded locals
DecodeMessage(d, zone) ==
    LET dec == XMLDecode(wsddNsMap, DatagramTokens(d)) IN
    [err |-> dec.err,
     m   |-> MessageLoop(dec.elements, 1, zone,
                [action |-> << >>, address |-> << >>, types |-> << >>,
                 xaddrs |-> << >>])]

\* a mutation of the checks of handleUDPMessage: the Types check is left out
MessageChecksNoTypes(m) ==
    /\ m.action \in {ActProbeMatches, ActProbeMatchesS}
    /\ Len(m.xaddrs) # 0
    /\ m.address # << >>

\* the checks of handleUDPMessage after the duplicate check ("Check results")
MessageChecks(m) ==
    /\ m.action \in {ActProbeMatches, ActProbeMatchesS}
    /\ Len(m.xaddrs) # 0
    /\ StrIndex(m.types, "ScanDeviceType") >= 0
    /\ m.address # << >>

(***************************************************************************)
(* The inputs.                                                             *)
(***************************************************************************)
SeqsUpTo(S, n) == UNION {[1..k -> S] : k \in 0..n}

UrlKyocera == <<"http", "://", "192.168.1.102", ":", "5358", "/WSDScanner">>
UrlKyocera2 == <<"http", "://", "192.168.1.102", ":", "5358", "/WSDScanner2">>
\* http://[fe80::1]:5358/x
UrlLinkLocal ==
    <<"http", "://", "[", "fe80", ":", ":", "1", "]", ":", "5358", "/x">>
\* http://[fe80::1]/x
UrlLinkLocalNoPort == <<"http", "://", "[", "fe80", ":", ":", "1", "]", "/x">>
\* http://[2001:db8::1]:80/x
UrlGlobal ==
    <<"http", "://", "[", "2001", ":", "db8", ":", ":", "1", "]", ":", "80", "/x">>
\* /x
UrlRelative == <<"/x">>

XAddrTokens ==
    {UrlKyocera, UrlLinkLocal, UrlLinkLocalNoPort, UrlGlobal, UrlRelative}

\* the text of a d:XAddrs element listing the tokens
XAddrsText(tokens) ==
    IF tokens = << >> THEN << >> ELSE <<"\n">> \o JoinFields(tokens) \o <<" ">>

AddrAbc == <<"urn", ":", "uuid", ":", "abc">>
AddrDef == <<"urn", ":", "uuid", ":", "def">>
TypesScanDevice ==
    <<"wsdp", ":", "Device", " ", "wscn", ":", "ScanDeviceType">>
TypesPrintDevice ==
    <<"wsdp", ":", "Device", " ", "wprt", ":", "PrintDeviceType">>
TypesScanner == <<"wscn", ":", "ScannerServiceType">>
TypesPrinter == <<"wprt", ":", "PrinterServiceType">>

Entry(address, hasTypes, types, tokens) ==
    [hasAddress |-> TRUE, address |-> address,
     hasTypes |-> hasTypes, types |-> types,
     xaddrs |-> XAddrsText(tokens), tokens |-> tokens]

Datagram(action, entries) ==
    [action |-> action, entries |-> entries, broken |-> FALSE]

\* the ProbeMatches of the end-to-end scenario
DgKyocera ==
    Datagram(ActProbeMatches,
             <<Entry(AddrAbc, TRUE, TypesScanDevice, <<UrlKyocera>>)>>)
\* the same device, answering on another interface with two XAddrs
DgKyoceraTwo ==
    Datagram(ActProbeMatchesS,
             <<Entry(AddrAbc, TRUE, TypesScanDevice,
                     <<UrlLinkLocal, UrlKyocera>>)>>)
\* a printer
DgPrinter ==
    Datagram(ActProbeMatches,
             <<Entry(AddrDef, TRUE, TypesPrintDevice, <<UrlKyocera2>>)>>)

WideDatagrams ==
    {Datagram(action, <<Entry(address, t[1], t[2], tokens)>>) :
        action \in {ActProbeMatches, ActProbeMatchesS, ActHello},
        address \in {AddrAbc, AddrDef, << >>},
        t \in {<<TRUE, TypesScanDevice>>, <<TRUE, TypesPrintDevice>>,
               <<FALSE, << >>>>},
        tokens \in SeqsUpTo(XAddrTokens, MaxXAddrs)}
    \cup {[DgKyocera EXCEPT !.broken = TRUE]}

\* the number of d:ProbeMatch entries of a datagram with several
MaxEntries == 2

\* the entries of such datagrams: a scanner, a printer at another address,
\* an entry without Types, an entry without EndpointReference
EntryBlocks ==
    {Entry(AddrAbc, TRUE, TypesScanDevice, <<UrlKyocera>>),
     Entry(AddrDef, TRUE, TypesPrintDevice, <<UrlKyocera2>>),
     Entry(AddrDef, FALSE, << >>, <<UrlLinkLocal>>),
     [Entry(<< >>, TRUE, TypesScanDevice, <<UrlGlobal>>)
         EXCEPT !.hasAddress = FALSE]}

\* the ProbeMatches datagrams with two to MaxEntries entries
MultiDatagrams ==
    {Datagram(ActProbeMatches, entries) :
        entries \in {es \in SeqsUpTo(EntryBlocks, MaxEntries) : Len(es) >= 2}}

Hosted(address, hasTypes, types, typesFirst) ==
    [address |-> address, hasTypes |-> hasTypes, types |-> types,
     typesFirst |-> typesFirst]

Body(action, manufacturer, model, hosted) ==
    [action |-> action, manufacturer |-> manufacturer, model |-> model,
     hosted |-> hosted, broken |-> FALSE]

Kyocera == <<"Kyocera">>
Ecosys == <<"ECOSYS", " ", "M2040dn">>

PostError == [kind |-> "post", body |-> << >>]
ReadError == [kind |-> "read", body |-> << >>]
Ok(body) == [kind |-> "ok", body |-> body]

\* the GetResponse of the end-to-end scenario
OkKyocera ==
    Ok(Body(ActGetResponse, Kyocera, Ecosys,
            <<Hosted(UrlKyocera, TRUE, TypesScanner, FALSE)>>))
\* a device with a printer service, a scanner service on a link-local
\* address and one with a relative address
OkOther ==
    Ok(Body(ActGetResponseS, << >>, Ecosys,
            <<Hosted(UrlKyocera2, TRUE, TypesPrinter, FALSE),
              Hosted(UrlLinkLocal, TRUE, TypesScanner, TRUE),
              Hosted(UrlRelative, TRUE, TypesScanner, FALSE)>>))

HostedBlocks ==
    {Hosted(address, t[1], t[2], typesFirst) :
        address \in {UrlKyocera, UrlLinkLocal},
        t \in {<<TRUE, TypesScanner>>, <<TRUE, TypesPrinter>>,
               <<FALSE, << >>>>},
        typesFirst \in BOOLEAN}

WideBodies ==
    {Body(action, manufacturer, model, hosted) :
        action \in {ActGetResponse, ActGetResponseS, ActFault},
        manufacturer \in {Kyocera, <<" ">>},
        model \in {Ecosys, << >>},
        hosted \in {<< >>, <<Hosted(UrlKyocera, TRUE, TypesScanner, FALSE)>>,
                    <<Hosted(UrlKyocera, TRUE, TypesPrinter, FALSE)>>}}
    \cup {Body(ActGetResponse, Kyocera, Ecosys, hosted) :
             hosted \in SeqsUpTo(HostedBlocks, MaxHosted)}
    \cup {[OkKyocera.body EXCEPT !.broken = TRUE]}

WideOutcomes == {PostError, ReadError} \cup {Ok(b) : b \in WideBodies}

\* a DNS-SD service whose endpoint has the name and URL of the WSD one
SvcKyocera ==
    [Name |-> Kyocera \o <<" ">> \o Ecosys, Address |-> <<"192.168.1.102">>,
     Interface |-> "2", Port |-> "5358", rs |-> "/WSDScanner"]
SvcEscl ==
    [Name |-> Kyocera \o <<" ">> \o Ecosys, Address |-> <<"192.168.1.102">>,
     Interface |-> "2", Port |-> "9095", rs |-> "/eSCL"]

Iface(name, loopback, addrs) ==
    [Name |-> name, Loopback |-> loopback, Addrs |-> addrs]

\* lo, eth0 with an IPv4 and a global IPv6 address, wlan0 with a
\* link-local IPv6 address
HostInterfaces ==
    <<Iface("lo", TRUE, <<<<"127.0.0.1">>>>),
      Iface("eth0", FALSE, <<<<"192.168.1.5">>,
                             <<"2001", ":", "db8", ":", ":", "5">>>>),
      Iface("wlan0", FALSE, <<<<"fe80", ":", ":", "2">>>>)>>

(***************************************************************************)
(* The two decoders, tabulated over the inputs: the value of a pure        *)
(* function of the datagram (and zone) or of the HTTP outcome.             *)
(***************************************************************************)
Datagrams ==
    WideDatagrams \cup MultiDatagrams \cup {DgKyocera, DgKyoceraTwo, DgPrinter}
Outcomes == WideOutcomes \cup {OkKyocera, OkOther}
Zones == {"eth0", "wlan0"}

DecodeTable == [d \in Datagrams, zone \in Zones |-> DecodeMessage(d, zone)]

MetadataTable == [o \in Outcomes |-> getMetadataResult(o)]

\* getMetadata(log, address, xaddr): the Get request it posts to xaddr, and,
\* the outcome o of the HTTP exchange given, what it logs and returns
getMetadata(address, xaddr, o) ==
    [xaddr |-> xaddr, to |-> address, outcome |-> o,
     urls |-> MetadataTable[o].urls,
     endpoints |-> MetadataTable[o].endpoints]

(***************************************************************************)
(* The program state.                                                      *)
(***************************************************************************)
VARIABLES
    interfaces,     \* net.Interfaces(): <<[Name, Loopback, Addrs]>>
    net,            \* the datagrams the network may deliver to a socket
    web,            \* the outcomes an HTTP exchange with a device may have
    services,       \* the services the DNS-SD browser may report
    fatal,          \* the message of LogFatal, "" while it was not called
    mainpc,         \* main: "loop", "report", "exit"
    timer,          \* whether the 2500 ms timer has fired
    endpoints,      \* main's map of endpoints
    report,         \* the lines printed under [devices]
    received,       \* (history) the endpoints main received on the channel
    dupReceived,    \* (history) main received some endpoint more than once
    dnspc,          \* DNSSdDiscover: "init", "browse"
    wsdpc,          \* WSSDDiscover: "bind", "start", "probe", "sleep"
    wsdi,           \* WSSDDiscover: the position of its current loop
    conns,          \* WSSDDiscover: the bound sockets (their local address)
    zones,          \* WSSDDiscover: the zone of each bound socket
    bindFailed,     \* (history) the addresses net.ListenUDP failed for
    wsddFound,      \* the set of already discovered devices
    wsddFoundMutex, \* 0, or the receiver that holds the mutex
    rx,             \* the receivers: the locals of recvUDPMessages and
                    \* handleUDPMessage, and the history of the invocation
    seqDone,        \* (history) per device address, the invocations that
                    \* ran their fetch sequence to completion
    prober,         \* the "Send Probe requests" loop of WSSDDiscover:
                    \*   sends   whether conn.WriteTo may succeed (TRUE),
                    \*           fail (FALSE)
                    \*   uuids   the identifiers uuid.NewRandom has yet
                    \*           to deliver
                    \*   u       the identifier of the round, 0 at first
                    \*   probes  the Probe messages sent in the round
                    \*   usedIds (history) the identifiers of the earlier
                    \*           rounds
    fix,            \* a sequence of zone repairs: the argument [url, zone]
                    \* and the results so far, << >> if there is none
    xml             \* a call of XMLDecode: the document doc and what the
                    \* call returned (out, << >> before it has returned);
                    \* << >> if there is none

env == <<interfaces, net, web, services>>
mainvars == <<mainpc, timer, endpoints, report, received, dupReceived>>
wsdvars == <<wsdpc, wsdi, conns, zones, bindFailed>>
vars == <<env, fatal, mainvars, dnspc, wsdvars, wsddFound, wsddFoundMutex,
          rx, seqDone, prober, fix, xml>>

\* the process runs until LogFatal (os.Exit(1)) or until main returns
Running == fatal = "" /\ mainpc # "exit"

(***************************************************************************)
(* main.go: the aggregation loop and the report.                           *)
(***************************************************************************)
\* a mutation of MapInsert: the map is keyed by the URL alone
MapInsertByURL(m, e) == {x \in m : x.URL # e.URL} \cup {e}

\* endpoints[endpoint] = struct{}{}
MapInsert(m, e) == m \cup {e}

\* case endpoint := <-c, the receiving half of a send on the channel
MainReceive(e) ==
    /\ mainpc = "loop"
    /\ endpoints' = MapInsert(endpoints, e)
    /\ received' = received \cup {e}
    /\ dupReceived' = (dupReceived \/ e \in received)
    /\ UNCHANGED <<mainpc, timer, report>>

\* the timer fires
TimerFire ==
    /\ Running /\ ~timer
    /\ timer' = TRUE
    /\ UNCHANGED <<env, fix, xml, prober, fatal, mainpc, endpoints, report, received,
                   dupReceived, dnspc, wsdvars, wsddFound, wsddFoundMutex,
                   rx, seqDone>>

\* case <-t.C: break loop
MainTimeout ==
    /\ Running /\ mainpc = "loop" /\ timer
    /\ mainpc' = "report"
    /\ UNCHANGED <<env, fix, xml, prober, fatal, timer, endpoints, report, received,
                   dupReceived, dnspc, wsdvars, wsddFound, wsddFoundMutex,
                   rx, seqDone>>

\* the orders in which a range over the map m may visit its keys
Orderings(m) ==
    {o \in [1..Cardinality(m) -> m] :
        \A i, j \in 1..Cardinality(m) : i # j => o[i] # o[j]}

\* the line printed for an endpoint: "%q = %s" and ", proto" if any
ReportLine(e) == <<e.Name, e.URL, e.Proto>>

\* "Output results", then main returns
MainReport ==
    /\ Running /\ mainpc = "report"
    /\ \E o \in Orderings(endpoints) :
          report' = [i \in DOMAIN o |-> ReportLine(o[i])]
    /\ mainpc' = "exit"
    /\ UNCHANGED <<env, fix, xml, prober, fatal, timer, endpoints, received, dupReceived,
                   dnspc, wsdvars, wsddFound, wsddFoundMutex, rx, seqDone>>

(***************************************************************************)
(* DNSSdDiscover (the sibling producer on the same channel).               *)
(***************************************************************************)
\* the endpoint built from a resolved service [Name, Address, Interface,
\* Port, rs]; rs stands for "/" followed by the trimmed rs TXT value
DNSSdEndpoint(svc) ==
    Endpoint("", svc.Name,
        IF ":" \notin Range(svc.Address)
        THEN <<"http", "://">> \o svc.Address \o <<":", svc.Port, svc.rs>>
        ELSE IF IsLinkLocalUnicast(svc.Address)
        THEN <<"http", "://", "[">> \o svc.Address
             \o <<"%25", svc.Interface, "]", ":", svc.Port, svc.rs>>
        ELSE <<"http", "://", "[">> \o svc.Address
             \o <<"]", ":", svc.Port, svc.rs>>)

\* dbus.SystemBus, avahi.ServerNew, ServiceBrowserNew: LogFatal on failure
DNSSdInit ==
    /\ Running /\ dnspc = "init"
    /\ \E ok \in BOOLEAN :
          IF ok THEN dnspc' = "browse" /\ fatal' = fatal
          ELSE dnspc' = dnspc /\ fatal' = "Cannot get system bus"
    /\ UNCHANGED <<env, fix, xml, prober, mainvars, wsdvars, wsddFound, wsddFoundMutex, rx,
                   seqDone>>

\* case service := <-sb.AddChannel ... out <- endpoint
DNSSdService ==
    /\ Running /\ dnspc = "browse"
    /\ \E svc \in services : MainReceive(DNSSdEndpoint(svc))
    /\ UNCHANGED <<env, fix, xml, prober, fatal, dnspc, wsdvars, wsddFound, wsddFoundMutex,
                   rx, seqDone>>

(***************************************************************************)
(* wsdd.go: ifAddrs and WSSDDiscover.                                      *)
(***************************************************************************)
RECURSIVE IfaceAddrs(_, _)
IfaceAddrs(iface, k) ==
    IF k > Len(iface.Addrs) THEN << >>
    ELSE <<[IP |-> iface.Addrs[k], Zone |-> iface.Name]>>
         \o IfaceAddrs(iface, k + 1)

\* a mutation of ifAddrsFrom: the loopback interfaces are not skipped
RECURSIVE ifAddrsFromAll(_, _)
ifAddrsFromAll(ifs, k) ==
    IF k > Len(ifs) THEN << >>
    ELSE IfaceAddrs(ifs[k], 1) \o ifAddrsFromAll(ifs, k + 1)

RECURSIVE ifAddrsFrom(_, _)
ifAddrsFrom(ifs, k) ==
    IF k > Len(ifs) THEN << >>
    ELSE (IF ifs[k].Loopback THEN << >> ELSE IfaceAddrs(ifs[k], 1))
         \o ifAddrsFrom(ifs, k + 1)

ifAddrs == ifAddrsFrom(interfaces, 1)

\* addr.IP.To4() != nil
To4(ip) == ":" \notin Range(ip)

\* LogCheck(err): LogFatal, and with it os.Exit(1), if err != nil
LogCheck(err) == fatal' = err

\* what a receiver holds while it waits in ReadFromUDP
Idle(zone) ==
    [pc |-> "recv", zone |-> zone,
     action |-> << >>, address |-> << >>, types |-> << >>, xaddrs |-> << >>,
     i |-> 0, endpoints |-> {}, todo |-> {}, found |-> FALSE,
     msg |-> << >>, knownAtCall |-> FALSE, knownAtCheck |-> {},
     doneAtCheck |-> 0, calls |-> << >>, sent |-> << >>]

\* one turn of the "Create sockets" loop
WSSDBind ==
    /\ Running /\ wsdpc = "bind"
    /\ IF wsdi > Len(ifAddrs)
       THEN /\ wsdpc' = "start" /\ wsdi' = 1
            /\ UNCHANGED <<conns, zones, bindFailed, fatal>>
       ELSE LET addr == ifAddrs[wsdi]
                ip4  == To4(addr.IP)
            IN  /\ wsdpc' = wsdpc /\ wsdi' = wsdi + 1
                /\ IF ip4 \/ IsLinkLocalUnicast(addr.IP)
                   THEN \E err \in {"", "listen udp: bind failed"} :
                           /\ LogCheck(err)
                           /\ IF err = ""
                              THEN /\ conns' = Append(conns, addr)
                                   /\ zones' = Append(zones, addr.Zone)
                                   /\ bindFailed' = bindFailed
                              ELSE /\ UNCHANGED <<conns, zones>>
                                   /\ bindFailed' = bindFailed \cup {addr}
                   ELSE UNCHANGED <<conns, zones, bindFailed, fatal>>
    /\ UNCHANGED <<env, fix, xml, prober, mainvars, dnspc, wsddFound, wsddFoundMutex, rx,
                   seqDone>>

\* one turn of the "Start receivers" loop: go recvUDPMessages(conn, zone, c)
WSSDStart ==
    /\ Running /\ wsdpc = "start"
    /\ IF wsdi > Len(conns)
       THEN wsdpc' = "probe" /\ wsdi' = 1 /\ rx' = rx
       ELSE wsdpc' = wsdpc /\ wsdi' = wsdi + 1
            /\ rx' = Append(rx, Idle(zones[wsdi]))
    /\ UNCHANGED <<env, fix, xml, prober, fatal, mainvars, dnspc, conns, zones, bindFailed,
                   wsddFound, wsddFoundMutex, seqDone>>

\* WSDiscoveryAddrIp4, WSDiscoveryAddrIp6 and the port of dest4, dest6
WSDiscoveryAddrIp4 == <<"239.255.255.250">>
WSDiscoveryAddrIp6 == <<"ff02", ":", ":", "c">>
WSDiscoveryPort == 3702

\* dest := dest4; if laddr.IP.To4() == nil { dest = dest6;
\* dest.Zone = laddr.Zone }
ProbeDest(laddr) ==
    IF To4(laddr.IP)
    THEN [IP |-> WSDiscoveryAddrIp4, Port |-> WSDiscoveryPort, Zone |-> ""]
    ELSE [IP |-> WSDiscoveryAddrIp6, Port |-> WSDiscoveryPort,
          Zone |-> laddr.Zone]

\* a mutation of ProbeId: the identifier is made once, before the loop
ProbeIdOnce(old, new) == IF old = 0 THEN new ELSE old

\* u, err := uuid.NewRandom() at the head of every round: the identifier
\* of the round, old being the one of the round before
ProbeId(old, new) == new

\* the prober before its first round, with the identifiers ids to come
\* and the outcomes sends of a WriteTo
Prober(ids, sends) ==
    [sends |-> sends, uuids |-> ids, u |-> 0, probes |-> << >>,
     usedIds |-> {}]

\* the inner loop of a round: on every socket, in order, one WriteTo of
\* the Probe with the round's identifier; ok[k] is whether the k-th
\* WriteTo succeeded, which the code does not look at
ProbeRound(id, cs, ok) ==
    [k \in DOMAIN cs |->
        [id |-> id, from |-> k, dest |-> ProbeDest(cs[k]), ok |-> ok[k]]]

\* one round of the "Send Probe requests" loop: a Probe on every socket
WSSDProbe ==
    /\ Running /\ wsdpc = "probe"
    /\ \E id \in prober.uuids :
       \E ok \in [DOMAIN conns -> prober.sends] :
          prober' = [prober EXCEPT
                        !.u = ProbeId(prober.u, id),
                        !.uuids = @ \ {id},
                        !.usedIds = IF prober.u = 0 THEN @
                                    ELSE @ \cup {prober.u},
                        !.probes = ProbeRound(ProbeId(prober.u, id),
                                              conns, ok)]
    /\ wsdpc' = "sleep" /\ wsdi' = Len(conns) + 1
    /\ UNCHANGED <<env, fix, xml, fatal, mainvars, dnspc, conns, zones,
                   bindFailed, wsddFound, wsddFoundMutex, rx, seqDone>>

\* time.Sleep(250 * time.Millisecond) returns
WSSDSleep ==
    /\ Running /\ wsdpc = "sleep"
    /\ wsdpc' = "probe" /\ wsdi' = 1
    /\ UNCHANGED <<env, fix, xml, prober, fatal, mainvars, dnspc, conns, zones, bindFailed,
                   wsddFound, wsddFoundMutex, rx, seqDone>>

(***************************************************************************)
(* wsdd.go: alreadyKnown, recvUDPMessages and handleUDPMessage.            *)
(***************************************************************************)
\* a mutation of alreadyKnown: the address is never reported as known
alreadyKnownNeverFound(known, address, save) ==
    [found |-> FALSE,
     known |-> IF save THEN known \cup {address} ELSE known]

\* a mutation of alreadyKnown: a known address is reported only when saving
alreadyKnownSaveOnly(known, address, save) ==
    [found |-> save /\ address \in known,
     known |-> IF address \notin known /\ save
               THEN known \cup {address} ELSE known]

\* a mutation of alreadyKnown: saving a known address takes it off the table
alreadyKnownForget(known, address, save) ==
    [found |-> address \in known,
     known |-> IF save
               THEN IF address \in known THEN known \ {address}
                    ELSE known \cup {address}
               ELSE known]

\* alreadyKnown between Lock and Unlock: what it returns, and the table
alreadyKnown(known, address, save) ==
    [found |-> address \in known,
     known |-> IF address \notin known /\ save
               THEN known \cup {address} ELSE known]

\* the device address a datagram carries: that of the last of its entries
\* that have one
DeviceAddress(d) ==
    LET with == {k \in DOMAIN d.entries : d.entries[k].hasAddress}
    IN  IF with = {} THEN << >>
        ELSE TrimSpace(d.entries[CHOOSE k \in with :
                                    \A l \in with : l <= k].address)

Count(f, a) == IF a \in DOMAIN f THEN f[a] ELSE 0

\* ReadFromUDP returns a datagram; the decoding part of handleUDPMessage
Recv(r) ==
    /\ Running /\ rx[r].pc = "recv"
    /\ \E d \in net :
          LET dec == DecodeTable[d, rx[r].zone]
              m   == dec.m
              got == [rx[r] EXCEPT !.msg = d,
                         !.knownAtCall = DeviceAddress(d) \in wsddFound]
          IN  rx' = [rx EXCEPT ![r] =
                        IF dec.err # ""
                        THEN [got EXCEPT !.pc = "commit"]
                        ELSE [got EXCEPT !.pc = "dup",
                                 !.action = m.action, !.address = m.address,
                                 !.types = m.types, !.xaddrs = m.xaddrs]]
    /\ UNCHANGED <<env, fix, xml, prober, fatal, mainvars, dnspc, wsdvars, wsddFound,
                   wsddFoundMutex, seqDone>>

\* a mutation of Lock: the mutex is taken without waiting for its holder
LockNoWait(r) ==
    /\ Running /\ rx[r].pc \in {"dup", "mark"}
    /\ wsddFoundMutex' = r
    /\ rx' = [rx EXCEPT ![r].pc = IF @ = "dup" THEN "dupCS" ELSE "markCS"]
    /\ UNCHANGED <<env, fix, xml, prober, fatal, mainvars, dnspc, wsdvars, wsddFound, seqDone>>

\* wsddFoundMutex.Lock() in alreadyKnown
Lock(r) ==
    /\ Running /\ rx[r].pc \in {"dup", "mark"}
    /\ wsddFoundMutex = 0
    /\ wsddFoundMutex' = r
    /\ rx' = [rx EXCEPT ![r].pc = IF @ = "dup" THEN "dupCS" ELSE "markCS"]
    /\ UNCHANGED <<env, fix, xml, prober, fatal, mainvars, dnspc, wsdvars, wsddFound, seqDone>>

\* a mutation of CheckDup: the duplicate check saves the address
CheckDupSaves(r) ==
    /\ Running /\ rx[r].pc = "dupCS"
    /\ LET res == alreadyKnown(wsddFound, rx[r].address, TRUE)
           pass == ~res.found /\ MessageChecks(rx[r])
       IN  /\ wsddFound' = res.known
           /\ rx' = [rx EXCEPT ![r].found = res.found,
                       ![r].knownAtCheck = wsddFound,
                       ![r].doneAtCheck = Count(seqDone, rx[r].address),
                       ![r].i = IF pass THEN 1 ELSE @,
                       ![r].pc = IF pass THEN "fetch" ELSE "commit"]
    /\ wsddFoundMutex' = 0
    /\ UNCHANGED <<env, fix, xml, prober, fatal, mainvars, dnspc, wsdvars, seqDone>>

\* a mutation of CheckDup: alreadyKnown returns without Unlock
CheckDupKeepLock(r) ==
    /\ Running /\ rx[r].pc = "dupCS"
    /\ LET res == alreadyKnown(wsddFound, rx[r].address, FALSE)
           pass == ~res.found /\ MessageChecks(rx[r])
       IN  /\ wsddFound' = res.known
           /\ rx' = [rx EXCEPT ![r].found = res.found,
                       ![r].knownAtCheck = wsddFound,
                       ![r].doneAtCheck = Count(seqDone, rx[r].address),
                       ![r].i = IF pass THEN 1 ELSE @,
                       ![r].pc = IF pass THEN "fetch" ELSE "commit"]
    /\ wsddFoundMutex' = wsddFoundMutex
    /\ UNCHANGED <<env, fix, xml, prober, fatal, mainvars, dnspc, wsdvars, seqDone>>

\* alreadyKnown(address, false) and the checks that follow it
CheckDup(r) ==
    /\ Running /\ rx[r].pc = "dupCS"
    /\ LET res == alreadyKnown(wsddFound, rx[r].address, FALSE)
           pass == ~res.found /\ MessageChecks(rx[r])
       IN  /\ wsddFound' = res.known
           /\ rx' = [rx EXCEPT ![r].found = res.found,
                       ![r].knownAtCheck = wsddFound,
                       ![r].doneAtCheck = Count(seqDone, rx[r].address),
                       ![r].i = IF pass THEN 1 ELSE @,
                       ![r].pc = IF pass THEN "fetch" ELSE "commit"]
    /\ wsddFoundMutex' = 0
    /\ UNCHANGED <<env, fix, xml, prober, fatal, mainvars, dnspc, wsdvars, seqDone>>

\* a mutation of FetchTurn: the loop over xaddrs ends after its first turn
FetchTurnOnce(loc, o) ==
    LET res == getMetadata(loc.address, loc.xaddrs[loc.i], o)
    IN  [loc EXCEPT !.endpoints = @ \cup Range(res.endpoints),
                    !.calls = Append(@, res),
                    !.i = @ + 1,
                    !.pc = "mark"]

\* a mutation of FetchTurn: a failed HTTP exchange ends handleUDPMessage
FetchTurnReturnOnError(loc, o) ==
    LET res == getMetadata(loc.address, loc.xaddrs[loc.i], o)
    IN  [loc EXCEPT !.endpoints = @ \cup Range(res.endpoints),
                    !.calls = Append(@, res),
                    !.i = @ + 1,
                    !.pc = IF o.kind # "ok" THEN "commit"
                           ELSE IF loc.i = Len(loc.xaddrs) THEN "mark"
                           ELSE "fetch"]

\* one turn of the loop over xaddrs, the outcome o of the HTTP exchange
\* given: epp := getMetadata(log, address, xaddr), and epp merged into the
\* map; loc are the locals of the receiver
FetchTurn(loc, o) ==
    LET res == getMetadata(loc.address, loc.xaddrs[loc.i], o)
    IN  [loc EXCEPT !.endpoints = @ \cup Range(res.endpoints),
                    !.calls = Append(@, res),
                    !.i = @ + 1,
                    !.pc = IF loc.i = Len(loc.xaddrs) THEN "mark" ELSE "fetch"]

Fetch(r) ==
    /\ Running /\ rx[r].pc = "fetch"
    /\ \E o \in web : rx' = [rx EXCEPT ![r] = FetchTurn(rx[r], o)]
    /\ UNCHANGED <<env, fix, xml, prober, fatal, mainvars, dnspc, wsdvars, wsddFound,
                   wsddFoundMutex, seqDone>>

\* a mutation of Mark: the address is saved only if endpoints were found
MarkIfEndpoints(r) ==
    /\ Running /\ rx[r].pc = "markCS"
    /\ LET res == alreadyKnown(wsddFound, rx[r].address,
                               rx[r].endpoints # {})
       IN  wsddFound' = res.known
    /\ wsddFoundMutex' = 0
    /\ seqDone' = (rx[r].address :>
                      IF Count(seqDone, rx[r].address) > Len(rx)
                      THEN Count(seqDone, rx[r].address)
                      ELSE Count(seqDone, rx[r].address) + 1) @@ seqDone
    /\ rx' = [rx EXCEPT ![r].todo = rx[r].endpoints,
                        ![r].pc = IF rx[r].endpoints = {}
                                  THEN "commit" ELSE "emit"]
    /\ UNCHANGED <<env, fix, xml, prober, fatal, mainvars, dnspc, wsdvars>>

\* a mutation of Mark: the address is looked up but not saved
MarkNoSave(r) ==
    /\ Running /\ rx[r].pc = "markCS"
    /\ LET res == alreadyKnown(wsddFound, rx[r].address, FALSE)
       IN  wsddFound' = res.known
    /\ wsddFoundMutex' = 0
    /\ seqDone' = (rx[r].address :>
                      IF Count(seqDone, rx[r].address) > Len(rx)
                      THEN Count(seqDone, rx[r].address)
                      ELSE Count(seqDone, rx[r].address) + 1) @@ seqDone
    /\ rx' = [rx EXCEPT ![r].todo = rx[r].endpoints,
                        ![r].pc = IF rx[r].endpoints = {}
                                  THEN "commit" ELSE "emit"]
    /\ UNCHANGED <<env, fix, xml, prober, fatal, mainvars, dnspc, wsdvars>>

\* alreadyKnown(address, true)
Mark(r) ==
    /\ Running /\ rx[r].pc = "markCS"
    /\ LET res == alreadyKnown(wsddFound, rx[r].address, TRUE)
       IN  wsddFound' = res.known
    /\ wsddFoundMutex' = 0
    /\ seqDone' = (rx[r].address :>
                      IF Count(seqDone, rx[r].address) > Len(rx)
                      THEN Count(seqDone, rx[r].address)
                      ELSE Count(seqDone, rx[r].address) + 1) @@ seqDone
    /\ rx' = [rx EXCEPT ![r].todo = rx[r].endpoints,
                        ![r].pc = IF rx[r].endpoints = {}
                                  THEN "commit" ELSE "emit"]
    /\ UNCHANGED <<env, fix, xml, prober, fatal, mainvars, dnspc, wsdvars>>

\* a mutation of Emit: an endpoint whose repair fails is sent as it is
EmitUnrepaired(r) ==
    /\ Running /\ rx[r].pc = "emit"
    /\ \E e \in rx[r].todo :
          LET fixed == fixIpv6URLZone(e.URL, rx[r].zone)
              left  == rx[r].todo \ {e}
              pc2   == IF left = {} THEN "commit" ELSE "emit"
              out   == IF fixed.err # "" THEN e
                       ELSE [e EXCEPT !.URL = fixed.url]
          IN  /\ MainReceive(out)
              /\ rx' = [rx EXCEPT ![r].todo = left, ![r].pc = pc2,
                           ![r].sent = Append(@, out)]
    /\ UNCHANGED <<env, fix, xml, prober, fatal, dnspc, wsdvars, wsddFound, wsddFoundMutex,
                   seqDone>>

\* one turn of the loop over the merged endpoints: the URL is repaired and
\* the endpoint sent (main receives it), or the endpoint is dropped
Emit(r) ==
    /\ Running /\ rx[r].pc = "emit"
    /\ \E e \in rx[r].todo :
          LET fixed == fixIpv6URLZone(e.URL, rx[r].zone)
              left  == rx[r].todo \ {e}
              pc2   == IF left = {} THEN "commit" ELSE "emit"
          IN  IF fixed.err # ""
              THEN /\ rx' = [rx EXCEPT ![r].todo = left, ![r].pc = pc2]
                   /\ UNCHANGED mainvars
              ELSE /\ MainReceive([e EXCEPT !.URL = fixed.url])
                   /\ rx' = [rx EXCEPT ![r].todo = left, ![r].pc = pc2,
                                ![r].sent =
                                    Append(@, [e EXCEPT !.URL = fixed.url])]
    /\ UNCHANGED <<env, fix, xml, prober, fatal, dnspc, wsdvars, wsddFound, wsddFoundMutex,
                   seqDone>>

\* handleUDPMessage has returned: log.Commit(), and back to ReadFromUDP
Commit(r) ==
    /\ Running /\ rx[r].pc = "commit"
    /\ rx' = [rx EXCEPT ![r] = Idle(rx[r].zone)]
    /\ UNCHANGED <<env, fix, xml, prober, fatal, mainvars, dnspc, wsdvars, wsddFound,
                   wsddFoundMutex, seqDone>>

Receiver(r) ==
    \/ Recv(r) \/ Lock(r) \/ CheckDup(r) \/ Fetch(r) \/ Mark(r) \/ Emit(r)
    \/ Commit(r)

(***************************************************************************)
(* The specifications.                                                     *)
(***************************************************************************)
\* main has made the channel, the timer and the map, and started the two
\* discovery goroutines
Boot ==
    /\ fatal = "" /\ mainpc = "loop" /\ timer = FALSE
    /\ endpoints = {} /\ report = << >>
    /\ received = {} /\ dupReceived = FALSE
    /\ dnspc = "init"
    /\ wsdpc = "bind" /\ wsdi = 1 /\ conns = << >> /\ zones = << >>
    /\ bindFailed = {}
    /\ wsddFound = {} /\ wsddFoundMutex = 0
    /\ rx = << >>
    /\ seqDone = << >>

Start == Boot /\ fix = << >> /\ xml = << >>

Init ==
    /\ interfaces = HostInterfaces
    /\ net = {DgKyocera, DgKyoceraTwo, DgPrinter}
    /\ web = {PostError, OkKyocera}
    /\ services = {SvcKyocera}
    /\ prober = Prober({1}, {TRUE})
    /\ Start

Next ==
    \/ TimerFire \/ MainTimeout \/ MainReport
    \/ DNSSdInit \/ DNSSdService
    \/ WSSDBind \/ WSSDStart \/ WSSDProbe \/ WSSDSleep
    \/ \E r \in DOMAIN rx : Receiver(r)

Spec == Init /\ [][Next]_vars

\* one interface with one IPv4 address
SingleInterface == <<Iface("eth0", FALSE, <<<<"192.168.1.5">>>>)>>

\* the session on a host with one socket, its receiver started and the
\* prober in its loop
Started ==
    /\ interfaces = SingleInterface
    /\ services = {}
    /\ fatal = "" /\ mainpc = "loop" /\ timer = FALSE
    /\ endpoints = {} /\ report = << >>
    /\ received = {} /\ dupReceived = FALSE
    /\ dnspc = "browse"
    /\ wsdpc = "probe" /\ wsdi = 1
    /\ conns = <<[IP |-> <<"192.168.1.5">>, Zone |-> "eth0"]>>
    /\ zones = <<"eth0">>
    /\ bindFailed = {}
    /\ wsddFound = {} /\ wsddFoundMutex = 0
    /\ rx = <<Idle("eth0")>>
    /\ seqDone = << >>
    /\ prober = Prober({1}, {TRUE})
    /\ fix = << >> /\ xml = << >>

NextHandler == \E r \in DOMAIN rx : Receiver(r)

\* handleUDPMessage on every datagram of the input space
InitHandler ==
    /\ \E d \in WideDatagrams : net = {d}
    /\ web = {PostError, ReadError, OkKyocera, OkOther,
              Ok([OkKyocera.body EXCEPT !.broken = TRUE])}
    /\ Started

SpecHandler == InitHandler /\ [][NextHandler]_vars

\* getMetadata on every HTTP outcome of the input space
InitMeta ==
    /\ net = {DgKyocera}
    /\ \E o \in WideOutcomes : web = {o}
    /\ Started

SpecMeta == InitMeta /\ [][NextHandler]_vars

\* handleUDPMessage on a datagram of the input space, one entry or several,
\* and on the datagram of the scenario, in any order and again and again
InitSeries ==
    /\ \E d \in WideDatagrams \cup MultiDatagrams : net = {d, DgKyocera}
    /\ web = {PostError, OkKyocera}
    /\ Started

SpecSeries == InitSeries /\ [][NextHandler]_vars

(***************************************************************************)
(* fixIpv6URLZone on its own: a URL given by its parts, and the repair     *)
(* applied to it and then to its own result.                               *)
(***************************************************************************)
MaxRepairs == 2

\* the hosts of the URLs: what the host is, and how it is written
FixHosts ==
    {[kind |-> "ipv4", text |-> <<"192.168.1.102">>],
     [kind |-> "name", text |-> <<"scanner.local">>],
     [kind |-> "linklocal", text |-> <<"[", "fe80", ":", ":", "1", "]">>],
     [kind |-> "linklocal", text |-> <<"[", "FE80", ":", ":", "1", "]">>],
     [kind |-> "global",
      text |-> <<"[", "2001", ":", "db8", ":", ":", "1", "]">>],
     [kind |-> "zoned",
      text |-> <<"[", "fe80", ":", ":", "1", "%25", "eth0", "]">>],
     [kind |-> "zoned",
      text |-> <<"[", "fe80", ":", ":", "1", "%25", "wlan0", "]">>],
     [kind |-> "bad", text |-> <<"[", "fe80", ":", ":", "zz", "]">>]}

\* the arguments of a repair: an absolute URL scheme://host[:port]/x, or
\* (scheme "") the relative URL /x, and the zone
FixArgs ==
    {[scheme |-> scheme, host |-> host, port |-> port, zone |-> zone,
      out |-> << >>] :
        scheme \in {"http", "https", "HTTP"}, host \in FixHosts,
        port \in {<< >>, <<":", "5358">>}, zone \in Zones}
    \cup {[scheme |-> "", host |-> [kind |-> "none", text |-> << >>],
           port |-> << >>, zone |-> zone, out |-> << >>] : zone \in Zones}

\* the URL as it is written
UrlText(a) ==
    IF a.scheme = "" THEN <<"/x">>
    ELSE <<a.scheme, "://">> \o a.host.text \o a.port \o <<"/x">>

\* fixIpv6URLZone applied to the URL, or to the result of the repair
\* before, with the same zone
FixApply ==
    /\ fix # << >>
    /\ Len(fix.out) < MaxRepairs
    /\ fix.out # << >> => fix.out[Len(fix.out)].err = ""
    /\ fix' = [fix EXCEPT !.out =
                  Append(@, fixIpv6URLZone(
                                IF @ = << >> THEN UrlText(fix)
                                ELSE @[Len(@)].url,
                                fix.zone))]
    /\ UNCHANGED <<env, xml, prober, fatal, mainvars, dnspc, wsdvars,
                   wsddFound, wsddFoundMutex, rx, seqDone>>

InitFix ==
    /\ interfaces = HostInterfaces
    /\ net = {DgKyocera}
    /\ web = {OkKyocera}
    /\ services = {}
    /\ prober = Prober({1}, {TRUE})
    /\ fix \in FixArgs
    /\ xml = << >>
    /\ Boot

SpecFix == InitFix /\ [][FixApply]_vars

\* the number of identifiers uuid.NewRandom has to deliver, and with it
\* the number of rounds of the prober
MaxRounds == 2

\* the session on the host of HostInterfaces after the "Create sockets" and
\* "Start receivers" loops: a socket and a receiver for the IPv4 address
\* of eth0 and for the link-local address of wlan0
Probing ==
    /\ interfaces = HostInterfaces
    /\ services = {}
    /\ fatal = "" /\ mainpc = "loop" /\ timer = FALSE
    /\ endpoints = {} /\ report = << >>
    /\ received = {} /\ dupReceived = FALSE
    /\ dnspc = "browse"
    /\ wsdpc = "probe" /\ wsdi = 1
    /\ conns = <<[IP |-> <<"192.168.1.5">>, Zone |-> "eth0"],
                 [IP |-> <<"fe80", ":", ":", "2">>, Zone |-> "wlan0"]>>
    /\ zones = <<"eth0", "wlan0">>
    /\ bindFailed = {}
    /\ wsddFound = {} /\ wsddFoundMutex = 0
    /\ rx = <<Idle("eth0"), Idle("wlan0")>>
    /\ seqDone = << >>
    /\ fix = << >> /\ xml = << >>

\* the prober, whose WriteTo may fail, beside the receivers and main
InitProbe ==
    /\ net = {DgKyocera}
    /\ web = {OkKyocera}
    /\ prober = Prober(1..MaxRounds, {TRUE, FALSE})
    /\ Probing

NextProbe ==
    \/ TimerFire \/ MainTimeout \/ MainReport
    \/ WSSDProbe \/ WSSDSleep
    \/ \E r \in DOMAIN rx : Receiver(r)

SpecProbe == InitProbe /\ [][NextProbe]_vars

\* the whole session on a host with one interface
InitLive ==
    /\ interfaces = SingleInterface
    /\ net = {DgKyocera}
    /\ web = {OkKyocera}
    /\ services = {SvcKyocera}
    /\ prober = Prober({1}, {TRUE})
    /\ Start

\* main's goroutine is scheduled: once t.C is ready the select takes that
\* case (it chooses at random among the ready cases, so a sender that is
\* always ready cannot keep it from the timer), and the report follows the
\* loop
SpecLive ==
    /\ InitLive /\ [][Next]_vars
    /\ WF_vars(MainTimeout) /\ WF_vars(MainReport)

(***************************************************************************)
(* XMLDecode on its own.  A document is written as a sequence of items:    *)
(* an opening tag, a closing tag, a self-closing tag, a run of character   *)
(* data, a comment.  decoder.Token() delivers the items as tokens and      *)
(* checks the nesting: a closing tag that does not match the open element  *)
(* and the end of the input inside an open element are syntax errors.      *)
(***************************************************************************)
MaxItems == 5

Comment == [k |-> "comment", space |-> "", local |-> "", text |-> << >>]

Item(k, space, local, text) ==
    [k |-> k, space |-> space, local |-> local, text |-> text]

\* the tokens decoder.Token() returns for the items of raw from position k
\* on; sc = [tokens, stack, err] are the tokens so far, the names of the
\* open elements and whether a syntax error was met
RECURSIVE DecoderScan(_, _, _)
DecoderScan(raw, k, sc) ==
    IF sc.err \/ k > Len(raw) THEN sc
    ELSE LET it == raw[k]
             name == <<it.space, it.local>>
         IN  DecoderScan(raw, k + 1,
                CASE it.k = "open" ->
                        [sc EXCEPT !.tokens =
                                      Append(@, StartElement(it.space, it.local)),
                                   !.stack = Append(@, name)]
                  [] it.k = "empty" ->
                        [sc EXCEPT !.tokens =
                                      @ \o <<StartElement(it.space, it.local),
                                             EndElement>>]
                  [] it.k = "close" ->
                        IF sc.stack # << >> /\ sc.stack[Len(sc.stack)] = name
                        THEN [sc EXCEPT !.tokens = Append(@, EndElement),
                                        !.stack = SubSeq(@, 1, Len(@) - 1)]
                        ELSE [sc EXCEPT !.err = TRUE]
                  [] it.k = "text" ->
                        [sc EXCEPT !.tokens = Append(@, CharData(it.text))]
                  [] OTHER ->
                        [sc EXCEPT !.tokens = Append(@, Comment)])

\* the whole token stream of the document raw, the error included
DecoderTokens(raw) ==
    LET sc == DecoderScan(raw, 1,
                  [tokens |-> << >>, stack |-> << >>, err |-> FALSE])
    IN  IF sc.err \/ sc.stack # << >>
        THEN Append(sc.tokens, SyntaxError) ELSE sc.tokens

\* the items of the documents: elements d:a (a namespace of wsddNsMap) and
\* b of a namespace it does not list, the text "x" between spaces, white
\* space, a comment
RawItems ==
    {Item("open", NsDisc, "a", << >>), Item("open", NsScan, "b", << >>),
     Item("close", NsDisc, "a", << >>), Item("close", NsScan, "b", << >>),
     Item("empty", NsScan, "b", << >>),
     Item("text", "", "", <<" ", "x", "\n">>),
     Item("text", "", "", <<"\n", " ">>),
     Item("comment", "", "", << >>)}

\* the documents of up to n items: no two runs of character data follow
\* one another (they would be one run), and nothing follows a syntax error
RECURSIVE RawDocs(_)
RawDocs(n) ==
    IF n = 0 THEN {<< >>}
    ELSE LET shorter == RawDocs(n - 1)
             open == {d \in shorter :
                        /\ Len(d) = n - 1
                        /\ ~DecoderScan(d, 1, [tokens |-> << >>,
                               stack |-> << >>, err |-> FALSE]).err}
         IN  shorter \cup
             {Append(p[1], p[2]) :
                 p \in {q \in open \X RawItems :
                          ~(/\ q[1] # << >>
                            /\ q[1][Len(q[1])].k = "text"
                            /\ q[2].k = "text")}}

\* elements, err := XMLDecode(wsddNsMap, in)
XMLApply ==
    /\ xml # << >> /\ xml.out = << >>
    /\ xml' = [xml EXCEPT
                  !.out = XMLDecode(wsddNsMap, DecoderTokens(xml.doc))]
    /\ UNCHANGED <<env, fix, prober, fatal, mainvars, dnspc, wsdvars,
                   wsddFound, wsddFoundMutex, rx, seqDone>>

InitXML ==
    /\ interfaces = HostInterfaces
    /\ net = {DgKyocera}
    /\ web = {OkKyocera}
    /\ services = {}
    /\ prober = Prober({1}, {TRUE})
    /\ fix = << >>
    /\ \E doc \in RawDocs(MaxItems) : xml = [doc |-> doc, out |-> << >>]
    /\ Boot

SpecXML == InitXML /\ [][XMLApply]_vars

\* ------------------------------------------------------------------
\* Session properties
\* ------------------------------------------------------------------

\* the receiver has passed the checks of handleUDPMessage and is in, or
\* past, the loop over xaddrs
InFetch(r) ==
    \/ rx[r].pc \in {"fetch", "mark", "markCS", "emit"}
    \/ rx[r].calls # << >>

\* the endpoint of the Kyocera scenario, written out
KyoceraEndpoint ==
    [Proto |-> "wsd",
     Name  |-> <<"Kyocera", " ", "ECOSYS", " ", "M2040dn">>,
     URL   |-> <<"http", "://", "192.168.1.102", ":", "5358", "/WSDScanner">>]

\* C1, as stated: of the invocations of handleUDPMessage for one device
\* address, at most one runs its getMetadata calls to completion,
\* whatever the interleaving of the receivers.
C1_AtMostOneFetchSequence ==
    \A a \in DOMAIN seqDone : seqDone[a] <= 1

\* C1, amended: an invocation of handleUDPMessage runs getMetadata only if
\* no invocation for the same address had completed its fetch sequence and
\* marked the address when this one looked the address up; two invocations
\* that both look it up before either marks it both run the sequence.
C1_FetchOnlyIfNoneMarkedAtCheck ==
    \A r \in DOMAIN rx : InFetch(r) => rx[r].doneAtCheck = 0

\* a datagram for an address whose fetch sequence another invocation had
\* completed was cut short at the lookup
C1_Witness ==
    \E r \in DOMAIN rx :
        /\ rx[r].pc = "commit" /\ rx[r].found
        /\ rx[r].doneAtCheck >= 1
        /\ rx[r].calls = << >>

\* C2: once an address is in the known set, a call of handleUDPMessage for
\* a datagram with that address makes no getMetadata call and sends no
\* endpoint.
C2_KnownAddressDoesNothing ==
    \A r \in DOMAIN rx :
        rx[r].knownAtCall =>
            /\ rx[r].calls = << >> /\ rx[r].sent = << >>
            /\ rx[r].pc \notin {"fetch", "mark", "markCS", "emit"}

\* a call that began with the address known has returned
C2_Witness ==
    \E r \in DOMAIN rx :
        /\ rx[r].knownAtCall /\ rx[r].pc = "commit"
        /\ DeviceAddress(rx[r].msg) # << >>

\* C3: handleUDPMessage calls getMetadata or sends an endpoint only if the
\* address was not known at the lookup, the action is ProbeMatches (http
\* or https namespace), at least one XAddr token survived the zone repair,
\* the Types text contains ScanDeviceType and the address is not empty.
C3_FetchOnlyForValidDatagram ==
    \A r \in DOMAIN rx :
        (rx[r].calls # << >> \/ rx[r].sent # << >>) =>
            LET d == rx[r].msg
                e == d.entries[Len(d.entries)]
            IN  /\ ~d.broken
                /\ d.entries # << >>
                /\ DeviceAddress(d) \notin rx[r].knownAtCheck
                /\ d.action \in {ActProbeMatches, ActProbeMatchesS}
                /\ \E k \in DOMAIN e.tokens :
                      fixIpv6URLZone(e.tokens[k], rx[r].zone).err = ""
                /\ e.hasTypes
                /\ \E k \in DOMAIN e.types : e.types[k] = "ScanDeviceType"
                /\ DeviceAddress(d) # << >>

\* a datagram went through all the checks, metadata was fetched and an
\* endpoint sent
C3_Witness ==
    \E r \in DOMAIN rx :
        rx[r].pc = "commit" /\ rx[r].calls # << >> /\ rx[r].sent # << >>

\* C4: a ProbeMatches datagram of an unknown device with ScanDeviceType
\* and one XAddr, whose GetResponse names Kyocera / ECOSYS M2040dn and has
\* one Hosted block of ScannerServiceType at
\* http://192.168.1.102:5358/WSDScanner, results in exactly one endpoint
\* sent: wsd, "Kyocera ECOSYS M2040dn", that URL.
C4_KyoceraScenario ==
    \A r \in DOMAIN rx :
        (/\ rx[r].pc = "commit"
         /\ rx[r].msg = DgKyocera
         /\ rx[r].knownAtCheck = {}
         /\ Len(rx[r].calls) = 1
         /\ rx[r].calls[1].outcome = OkKyocera)
        => /\ rx[r].sent = <<KyoceraEndpoint>>
           /\ KyoceraEndpoint \in received

\* the Kyocera scenario has run to the return of handleUDPMessage
C4_Witness ==
    \E r \in DOMAIN rx :
        /\ rx[r].pc = "commit"
        /\ rx[r].msg = DgKyocera
        /\ rx[r].knownAtCheck = {}
        /\ Len(rx[r].calls) = 1
        /\ rx[r].calls[1].outcome = OkKyocera
        /\ rx[r].calls[1].xaddr = UrlKyocera

\* C5: the set main aggregates is keyed by the whole endpoint (Proto, Name,
\* URL): it is the set of distinct endpoints received, and the report has
\* each of them exactly once.
C5_AggregationIsSetOfReceived ==
    /\ endpoints = received
    /\ mainpc = "exit" =>
          /\ Len(report) = Cardinality(received)
          /\ \A e \in received :
                Cardinality({k \in DOMAIN report :
                                report[k] = ReportLine(e)}) = 1

\* an endpoint arrived more than once, and so did two endpoints that
\* differ in Proto only, before the report was printed
C5_Witness ==
    /\ mainpc = "exit" /\ dupReceived
    /\ {KyoceraEndpoint, DNSSdEndpoint(SvcKyocera)} \subseteq received
    /\ Len(report) >= 2

\* C6, as stated: a failure to bind the UDP socket of one local address
\* makes WSSDDiscover skip that address; it never terminates the session
\* or the process.
C6_BindFailureSkipsAddress ==
    bindFailed # {} => fatal = ""

\* the HTTP exchange of a getMetadata call failed
Failed(call) == call.outcome.kind \in {"post", "read"}

\* the XAddr tokens of a datagram that the zone repair keeps, repaired, in
\* the order of the XAddrs text
Repaired(tokens, zone) ==
    LET kept == SelectSeq(tokens,
                    LAMBDA t : fixIpv6URLZone(t, zone).err = "")
    IN  [k \in 1..Len(kept) |-> fixIpv6URLZone(kept[k], zone).url]

\* C7: a getMetadata call whose HTTP POST or body read fails returns no
\* endpoints, for that XAddr only: handleUDPMessage still calls
\* getMetadata for each of the remaining XAddrs, in order, and sends the
\* endpoints those calls return.
C7_HttpFailureIsLocal ==
    \A r \in DOMAIN rx :
        /\ \A k \in DOMAIN rx[r].calls :
              Failed(rx[r].calls[k]) => rx[r].calls[k].endpoints = << >>
        /\ (InFetch(r) /\ rx[r].pc # "fetch") =>
              /\ Len(rx[r].calls) = Len(rx[r].xaddrs)
              /\ \A k \in DOMAIN rx[r].calls :
                    rx[r].calls[k].xaddr = rx[r].xaddrs[k]
        /\ (InFetch(r) /\ rx[r].pc = "commit") =>
              \A k \in DOMAIN rx[r].calls :
                  \A j \in DOMAIN rx[r].calls[k].endpoints :
                      LET e == rx[r].calls[k].endpoints[j]
                          fixed == fixIpv6URLZone(e.URL, rx[r].zone)
                      IN  fixed.err = "" =>
                            \E n \in DOMAIN rx[r].sent :
                                rx[r].sent[n] = [e EXCEPT !.URL = fixed.url]

\* the POST to the first of two XAddrs failed, the second was fetched and
\* its endpoint sent
C7_Witness ==
    \E r \in DOMAIN rx :
        /\ rx[r].pc = "commit"
        /\ Len(rx[r].calls) = 2
        /\ Failed(rx[r].calls[1])
        /\ rx[r].calls[2].outcome = OkKyocera
        /\ rx[r].sent = <<KyoceraEndpoint>>

\* C8: an XAddr token whose zone repair fails is dropped, and only that
\* token: the other tokens of the datagram are kept in their order, and
\* the datagram goes on through the checks with them.
C8_BadXAddrDroppedAlone ==
    \A r \in DOMAIN rx :
        (rx[r].pc # "recv" /\ ~rx[r].msg.broken) =>
            LET e == rx[r].msg.entries[Len(rx[r].msg.entries)]
                want == Repaired(e.tokens, rx[r].zone)
            IN  /\ rx[r].xaddrs = want
                /\ \A k \in DOMAIN rx[r].calls :
                      rx[r].calls[k].xaddr = want[k]

\* of two tokens the first failed the repair, and metadata was fetched
\* from the second
C8_Witness ==
    \E r \in DOMAIN rx :
        LET e == rx[r].msg.entries[1]
        IN  /\ rx[r].pc = "mark"
            /\ e.tokens = <<UrlLinkLocalNoPort, UrlKyocera>>
            /\ Len(rx[r].calls) = 1
            /\ rx[r].calls[1].xaddr = UrlKyocera

\* the Types text of a Hosted block names the scanner service
IsScannerBlock(h) ==
    h.hasTypes /\ \E k \in DOMAIN h.types : h.types[k] = "ScannerServiceType"

\* C9: getMetadata returns endpoints only if the response action is
\* GetResponse (http or https namespace), the manufacturer or the model is
\* not blank, and a scanner Hosted URL was extracted; otherwise, also for
\* a body that does not parse, it returns none.
C9_EndpointsOnlyForGoodResponse ==
    \A r \in DOMAIN rx :
        \A k \in DOMAIN rx[r].calls :
            LET call == rx[r].calls[k]
                b == call.outcome.body
            IN  call.endpoints # << >> =>
                  /\ call.outcome.kind = "ok"
                  /\ ~b.broken
                  /\ b.action \in {ActGetResponse, ActGetResponseS}
                  /\ \/ TrimSpace(b.manufacturer) # << >>
                     \/ TrimSpace(b.model) # << >>
                  /\ \E j \in DOMAIN b.hosted : IsScannerBlock(b.hosted[j])
                  /\ call.urls # << >>

\* a GetResponse with scanner Hosted URLs and blank manufacturer and model
\* gave no endpoints
C9_Witness ==
    \E r \in DOMAIN rx :
        \E k \in DOMAIN rx[r].calls :
            LET call == rx[r].calls[k]
                b == call.outcome.body
            IN  /\ call.outcome.kind = "ok" /\ ~b.broken
                /\ b.action = ActGetResponse
                /\ TrimSpace(b.manufacturer) = << >>
                /\ TrimSpace(b.model) = << >>
                /\ call.urls # << >>
                /\ call.endpoints = << >>

\* the Address texts of the scanner blocks among hosted, in order
RECURSIVE ScannerAddresses(_)
ScannerAddresses(hosted) ==
    IF hosted = << >> THEN << >>
    ELSE (IF IsScannerBlock(Head(hosted))
          THEN <<TrimSpace(Head(hosted).address)>> ELSE << >>)
         \o ScannerAddresses(Tail(hosted))

\* C10: the URLs getMetadata extracts are exactly the Address texts of the
\* Hosted blocks whose own Types text contains ScannerServiceType,
\* whatever the order of Types and Address in a block and whatever the
\* other blocks hold.
C10_UrlsAreScannerBlockAddresses ==
    \A r \in DOMAIN rx :
        \A k \in DOMAIN rx[r].calls :
            LET call == rx[r].calls[k]
                b == call.outcome.body
            IN  (call.outcome.kind = "ok" /\ ~b.broken) =>
                    call.urls = ScannerAddresses(b.hosted)

\* a printer block followed by a scanner block whose Address comes before
\* its Types: only the second block's address was extracted
C10_Witness ==
    \E r \in DOMAIN rx :
        \E k \in DOMAIN rx[r].calls :
            LET call == rx[r].calls[k]
                h == call.outcome.body.hosted
            IN  /\ call.outcome.kind = "ok" /\ ~call.outcome.body.broken
                /\ Len(h) = 2
                /\ ~IsScannerBlock(h[1]) /\ h[1].hasTypes
                /\ IsScannerBlock(h[2]) /\ ~h[2].typesFirst
                /\ h[1].address # h[2].address
                /\ call.urls = <<h[2].address>>

\* C11: on success getMetadata returns exactly one Endpoint per extracted
\* hosted URL, in order, each with Proto "wsd" and the same Name: the
\* manufacturer, a space and the model when the manufacturer is not blank,
\* the model alone when it is.
C11_OneEndpointPerUrl ==
    \A r \in DOMAIN rx :
        \A k \in DOMAIN rx[r].calls :
            LET call == rx[r].calls[k]
                b == call.outcome.body
                manufacturer == TrimSpace(b.manufacturer)
                model == TrimSpace(b.model)
                urls == ScannerAddresses(b.hosted)
            IN  call.endpoints # << >> =>
                  /\ Len(call.endpoints) = Len(urls)
                  /\ \A j \in DOMAIN call.endpoints :
                        /\ call.endpoints[j].Proto = "wsd"
                        /\ call.endpoints[j].URL = urls[j]
                        /\ call.endpoints[j].Name =
                              IF manufacturer = << >> THEN model
                              ELSE manufacturer \o <<" ">> \o model

\* a response with two scanner blocks at different addresses gave two
\* endpoints with the same name, in the order of the blocks
C11_Witness ==
    \E r \in DOMAIN rx :
        \E k \in DOMAIN rx[r].calls :
            LET call == rx[r].calls[k]
                h == call.outcome.body.hosted
            IN  /\ Len(call.endpoints) = 2
                /\ Len(h) = 2 /\ h[1].address # h[2].address
                /\ call.endpoints[1].URL = h[1].address
                /\ call.endpoints[2].URL = h[2].address
                /\ call.endpoints[1].Name = Kyocera \o <<" ">> \o Ecosys

\* the URL was absolute and the first repair has been done
Repaired1 == fix # << >> /\ fix.scheme # "" /\ Len(fix.out) >= 1

\* C12, as stated: zone repair is idempotent: for a URL with a link-local
\* IPv6 literal host, the repair of the repaired URL with the same zone
\* succeeds and gives the repaired URL again; and the repair of a URL
\* whose host is IPv4 or a global IPv6 literal returns it unchanged.
C12_RepairIdempotent ==
    /\ (Repaired1 /\ fix.host.kind = "linklocal" /\ Len(fix.out) = 2) =>
          /\ fix.out[2].err = ""
          /\ fix.out[2].url = fix.out[1].url
    /\ (Repaired1 /\ fix.host.kind \in {"ipv4", "global"}) =>
          fix.out[1] = [err |-> "", url |-> UrlText(fix)]

\* the host a repair with zone z is to give to a link-local literal: the
\* literal, the percent-encoded delimiter and the zone, in the brackets
ZonedText(z) == <<"[", "fe80", ":", ":", "1", "%25", z, "]">>

\* C13, as stated: for an absolute URL whose host is a bracketed
\* link-local IPv6 literal, the repair with zone z returns the same URL
\* with only the host changed, to carry the zone before the port, the
\* delimiter percent-encoded.
C13_LinkLocalGetsZone ==
    (Repaired1 /\ fix.host.kind = "linklocal") =>
        /\ fix.out[1].err = ""
        /\ fix.out[1].url =
              <<fix.scheme, "://">> \o ZonedText(fix.zone) \o fix.port
                  \o <<"/x">>

\* C14, as stated: the repair fails exactly when the URL is not absolute
\* or its bracketed host literal does not parse as an IP address; for an
\* absolute URL whose host is IPv4, a hostname or a global IPv6 literal,
\* with or without port, it succeeds and returns the input unchanged.
C14_FailsOnlyOnInvalidUrl ==
    /\ (fix # << >> /\ Len(fix.out) >= 1
        /\ fix.host.kind \in {"none", "bad", "ipv4", "name", "global",
                              "linklocal"}) =>
          (fix.out[1].err # "" <=> fix.host.kind \in {"none", "bad"})
    /\ (Repaired1 /\ fix.host.kind \in {"ipv4", "name", "global"}) =>
          fix.out[1] = [err |-> "", url |-> UrlText(fix)]

\* C15: the set of known addresses only grows: no step takes an address off
\* it, and saving an address that is already on it leaves it as it is.
C15_KnownSetOnlyGrows ==
    [][/\ wsddFound \subseteq wsddFound'
       /\ \A r \in DOMAIN rx :
             (/\ rx[r].pc = "markCS" /\ rx'[r].pc # "markCS"
              /\ rx[r].address \in wsddFound)
             => wsddFound' = wsddFound]_vars

\* an address was saved a second time, and is on the table
C15_Witness ==
    \E a \in wsddFound : Count(seqDone, a) >= 2

\* the receiver that is between Lock and Unlock of alreadyKnown
InCriticalSection(r) == rx[r].pc \in {"dupCS", "markCS"}

\* C16: the table is read and written only by the holder of wsddFoundMutex,
\* at most one receiver is between Lock and Unlock, and no receiver holds
\* the mutex during a metadata fetch or a send on the channel.
C16_TableUnderMutex ==
    /\ [](\A r \in DOMAIN rx :
            /\ InCriticalSection(r) <=> wsddFoundMutex = r
            /\ rx[r].pc \in {"fetch", "emit"} => wsddFoundMutex # r)
    /\ [](\A r1, r2 \in DOMAIN rx :
            InCriticalSection(r1) /\ InCriticalSection(r2) => r1 = r2)
    /\ [][wsddFound' # wsddFound =>
            /\ wsddFoundMutex \in DOMAIN rx
            /\ InCriticalSection(wsddFoundMutex)
            /\ wsddFoundMutex' = 0]_vars

\* one receiver is in the critical section while the other waits for the
\* mutex
C16_Witness ==
    \E r1, r2 \in DOMAIN rx :
        /\ r1 # r2
        /\ rx[r1].pc = "markCS" /\ wsddFoundMutex = r1
        /\ rx[r2].pc \in {"dup", "mark"}

\* C17: while the session runs and a receiver is suspended in a metadata
\* fetch or in a send on the channel, the prober can take its next step and
\* every other receiver can take its next step.
C17_TasksDoNotBlockOneAnother ==
    \A r1 \in DOMAIN rx :
        (Running /\ mainpc = "loop" /\ rx[r1].pc \in {"fetch", "emit"}) =>
            /\ wsdpc = "sleep" => ENABLED WSSDSleep
            /\ (wsdpc = "probe" /\ prober.uuids # {}) => ENABLED WSSDProbe
            /\ \A r2 \in DOMAIN rx \ {r1} : ENABLED Receiver(r2)

\* a receiver is in its first fetch, the prober has completed a round and
\* the other receiver has fetched and is sending its endpoints
C17_Witness ==
    \E r1, r2 \in DOMAIN rx :
        /\ r1 # r2
        /\ Running /\ mainpc = "loop"
        /\ rx[r1].pc = "fetch" /\ rx[r1].calls = << >>
        /\ rx[r2].pc = "emit" /\ rx[r2].calls # << >>
        /\ wsdpc = "sleep" /\ prober.u # 0

\* C18: while the process runs the prober can always take its next step;
\* every round has an identifier that no earlier round had, and sends the
\* Probe once on every bound socket, in order, to 239.255.255.250:3702 on
\* an IPv4 socket and to ff02::c:3702 with the zone of the socket on an
\* IPv6 one, whether or not the sends of the round succeeded.
C18_ProbeRounds ==
    /\ (Running /\ wsdpc = "sleep") => ENABLED WSSDSleep
    /\ (Running /\ wsdpc = "probe" /\ prober.uuids # {}) => ENABLED WSSDProbe
    /\ wsdpc = "sleep" =>
          /\ prober.u # 0 /\ prober.u \notin prober.usedIds
          /\ DOMAIN prober.probes = DOMAIN conns
          /\ \A k \in DOMAIN conns :
                /\ prober.probes[k].id = prober.u
                /\ prober.probes[k].from = k
                /\ prober.probes[k].dest =
                      IF ":" \in Range(conns[k].IP)
                      THEN [IP |-> <<"ff02", ":", ":", "c">>, Port |-> 3702,
                            Zone |-> zones[k]]
                      ELSE [IP |-> <<"239.255.255.250">>, Port |-> 3702,
                            Zone |-> ""]

\* the prober sleeps after its second round on an IPv4 and an IPv6 socket,
\* the first send of this round having failed
C18_Witness ==
    /\ Running /\ wsdpc = "sleep"
    /\ Cardinality(prober.usedIds) = 1
    /\ Len(prober.probes) = 2
    /\ ~prober.probes[1].ok /\ prober.probes[2].ok
    /\ prober.probes[2].dest.Zone = "wlan0"

\* C19: a socket is bound only to an address of an interface that is not
\* loopback, the address being IPv4 or link-local IPv6, once per address
\* and with the zone of its interface; when the "Create sockets" loop is
\* over there is one for every such address, and from then on no socket is
\* added or taken away.
C19_SocketsFixedAtStart ==
    /\ [](/\ Len(zones) = Len(conns)
          /\ \A k \in DOMAIN conns :
                /\ zones[k] = conns[k].Zone
                /\ ":" \notin Range(conns[k].IP) \/ conns[k].IP[1] = "fe80"
                /\ \E i \in DOMAIN interfaces :
                      /\ ~interfaces[i].Loopback
                      /\ interfaces[i].Name = conns[k].Zone
                      /\ conns[k].IP \in Range(interfaces[i].Addrs)
                /\ \A l \in DOMAIN conns : conns[l] = conns[k] => l = k)
    /\ [](wsdpc # "bind" =>
            \A i \in DOMAIN interfaces :
            \A j \in DOMAIN interfaces[i].Addrs :
               LET ip == interfaces[i].Addrs[j]
               IN  (/\ ~interfaces[i].Loopback
                    /\ ":" \notin Range(ip) \/ ip[1] = "fe80")
                   => [IP |-> ip, Zone |-> interfaces[i].Name]
                         \in Range(conns))
    /\ [][wsdpc # "bind" => conns' = conns /\ zones' = zones]_vars

\* the sockets of eth0's IPv4 address and of wlan0's link-local address,
\* their receivers started and a round of probes sent
C19_Witness ==
    /\ wsdpc = "sleep"
    /\ zones = <<"eth0", "wlan0">>
    /\ conns[1].IP = <<"192.168.1.5">>
    /\ conns[2].IP = <<"fe80", ":", ":", "2">>
    /\ Len(rx) = 2

\* C20 (as stated): once the timer has fired, main leaves the aggregation
\* loop and prints the report, whatever the discovery tasks do, and no
\* endpoint is added to the map after the loop.
C20_ReportAfterTimer ==
    /\ timer ~> (mainpc = "exit")
    /\ [][mainpc # "loop" => endpoints' = endpoints]_vars

(***************************************************************************)
(* What the claims about XMLDecode say of a document, read off its items.  *)
(***************************************************************************)
\* XMLDecode has returned from the document doc
Decoded(doc) == xml # << >> /\ xml.out # << >> /\ xml.doc = doc

\* the document is well-formed: its tags nest and match
WellFormed(doc) == \A i \in DOMAIN DecoderTokens(doc) :
                       DecoderTokens(doc)[i].k # "error"

\* the positions of the start tags (self-closing ones included)
StartTags(doc) == {i \in DOMAIN doc : doc[i].k \in {"open", "empty"}}

\* how many elements are open after the first k items
DepthAfter(doc, k) ==
    Cardinality({m \in 1..k : doc[m].k = "open"})
    - Cardinality({m \in 1..k : doc[m].k = "close"})

\* the element opened at position i encloses position j
Encloses(doc, i, j) ==
    /\ doc[i].k = "open" /\ i < j
    /\ \A m \in i..(j - 1) : DepthAfter(doc, m) >= DepthAfter(doc, i)

\* the position of the innermost element that encloses position j, or 0
EnclosingTag(doc, j) ==
    LET anc == {i \in DOMAIN doc : Encloses(doc, i, j)}
    IN  IF anc = {} THEN 0 ELSE CHOOSE i \in anc : \A m \in anc : m <= i

\* the place in the flat sequence of the element that starts at position i
ElementOf(doc, i) ==
    IF i = 0 THEN 0 ELSE Cardinality({m \in 1..i : m \in StartTags(doc)})

\* "/" prefix ":" local for the ancestors of the element at position j,
\* from the root down, and for the element itself; the prefix is "d" for
\* the discovery namespace and "-" for the one the table does not list
RECURSIVE PathFromRoot(_, _, _)
PathFromRoot(doc, j, m) ==
    IF m > j THEN << >>
    ELSE (IF m = j \/ Encloses(doc, m, j)
          THEN <<"/", IF doc[m].space = NsDisc THEN "d" ELSE "-", ":",
                 doc[m].local>>
          ELSE << >>)
         \o PathFromRoot(doc, j, m + 1)

\* C21: for a well-formed document XMLDecode returns no error and one
\* element per start tag, in document order, and the Path of each is the
\* concatenation of "/" prefix ":" local over its ancestors from the root
\* down and itself, "-" being the prefix of a namespace not in the table.
C21_PathsFromRoot ==
    (xml # << >> /\ xml.out # << >> /\ WellFormed(xml.doc)) =>
        /\ xml.out.err = ""
        /\ Len(xml.out.elements) = Cardinality(StartTags(xml.doc))
        /\ \A j \in StartTags(xml.doc) :
              xml.out.elements[ElementOf(xml.doc, j)].Path
                 = PathFromRoot(xml.doc, j, 1)

\* <d:a><b></b><b/></d:a> is decoded: the second b, which follows an end
\* tag at depth 2, has the path /d:a/-:b
C21_Witness ==
    /\ Decoded(<<Item("open", NsDisc, "a", << >>),
                 Item("open", NsScan, "b", << >>),
                 Item("close", NsScan, "b", << >>),
                 Item("empty", NsScan, "b", << >>),
                 Item("close", NsDisc, "a", << >>)>>)
    /\ Len(xml.out.elements) = 3
    /\ xml.out.elements[3].Path = <<"/", "d", ":", "a", "/", "-", ":", "b">>

\* the runs of character data that lie directly in the element that starts
\* at position j and are not white space alone
TextRuns(doc, j) ==
    {t \in DOMAIN doc :
        /\ doc[t].k = "text" /\ EnclosingTag(doc, t) = j
        /\ TrimSpace(doc[t].text) # << >>}

\* C22 (as stated): the Text of an element is its last run of character
\* data that is not white space alone, trimmed (empty if it has none); a
\* run of white space does not change it.
C22_WhitespaceRunIgnored ==
    (xml # << >> /\ xml.out # << >> /\ WellFormed(xml.doc)) =>
        \A j \in StartTags(xml.doc) :
            xml.out.elements[ElementOf(xml.doc, j)].Text =
                IF TextRuns(xml.doc, j) = {} THEN << >>
                ELSE TrimSpace(xml.doc[CHOOSE t \in TextRuns(xml.doc, j) :
                         \A u \in TextRuns(xml.doc, j) : u <= t].text)

\* the elements of the flat sequence that the element at position j
\* encloses
Descendants(doc, j) ==
    {ElementOf(doc, i) : i \in {i \in StartTags(doc) : Encloses(doc, j, i)}}

\* the document with <b/> written as <b></b>
RECURSIVE Expand(_)
Expand(doc) ==
    IF doc = << >> THEN << >>
    ELSE (IF Head(doc).k = "empty"
          THEN <<[Head(doc) EXCEPT !.k = "open"],
                 [Head(doc) EXCEPT !.k = "close"]>>
          ELSE <<Head(doc)>>)
         \o Expand(Tail(doc))

\* C23: in the result of XMLDecode for a well-formed document the Parent
\* of an element is the element that encloses it (none for a root), and its
\* Children are the elements it encloses, each once, in document order; a
\* self-closing element gives what the empty element gives.
C23_TreeLinks ==
    (xml # << >> /\ xml.out # << >> /\ WellFormed(xml.doc)) =>
        /\ Len(xml.out.elements) = Cardinality(StartTags(xml.doc))
        /\ \A j \in StartTags(xml.doc) :
              LET e == xml.out.elements[ElementOf(xml.doc, j)]
              IN  /\ e.Parent = ElementOf(xml.doc, EnclosingTag(xml.doc, j))
                  /\ Range(e.Children) = Descendants(xml.doc, j)
                  /\ \A a, b \in DOMAIN e.Children :
                        a < b => e.Children[a] < e.Children[b]
        /\ xml.out = XMLDecode(wsddNsMap, DecoderTokens(Expand(xml.doc)))

\* <d:a><b><b/></b></d:a> is decoded: the innermost element is a child of
\* both elements around it
C23_Witness ==
    /\ Decoded(<<Item("open", NsDisc, "a", << >>),
                 Item("open", NsScan, "b", << >>),
                 Item("empty", NsScan, "b", << >>),
                 Item("close", NsScan, "b", << >>),
                 Item("close", NsDisc, "a", << >>)>>)
    /\ xml.out.elements[1].Children = <<2, 3>>
    /\ xml.out.elements[2].Children = <<3>>
    /\ xml.out.elements[3].Parent = 2

\* C24: XMLDecode returns an error and no elements for a datagram or a
\* response body that is cut inside an open element; handleUDPMessage on
\* such a datagram returns without a getMetadata call, without sending an
\* endpoint and with the known-address set as it was, and the receiver
\* goes on to read the next datagram; getMetadata on such a body returns
\* no endpoints.
C24_MalformedIsDiscarded ==
    /\ \A d \in net :
          d.broken =>
              /\ XMLDecode(wsddNsMap, DatagramTokens(d))
                    = [err |-> "XML syntax error", elements |-> << >>]
              /\ wsddFound = {} /\ received = {} /\ fatal = ""
              /\ \A r \in DOMAIN rx :
                    /\ rx[r].calls = << >> /\ rx[r].sent = << >>
                    /\ rx[r].pc \in {"recv", "commit"}
                    /\ ENABLED Receiver(r)
    /\ \A r \in DOMAIN rx :
       \A c \in DOMAIN rx[r].calls :
          LET o == rx[r].calls[c].outcome
          IN  (o.kind = "ok" /\ o.body.broken) =>
                 /\ XMLDecode(wsddNsMap, ResponseTokens(o.body))
                       = [err |-> "XML syntax error", elements |-> << >>]
                 /\ rx[r].calls[c].endpoints = << >>

\* handleUDPMessage has returned from a datagram that is cut inside its
\* body
C24_Witness ==
    \E r \in DOMAIN rx :
        /\ rx[r].pc = "commit" /\ rx[r].msg # << >> /\ rx[r].msg.broken
        /\ rx[r].calls = << >> /\ wsddFound = {}

\* the endpoint e as handleUDPMessage with locals x sends it
Emitted(x, e) == [e EXCEPT !.URL = fixIpv6URLZone(e.URL, x.zone).url]

\* the URL of the endpoint e passes the zone repair of handleUDPMessage
Emittable(x, e) == fixIpv6URLZone(e.URL, x.zone).err = ""

\* handleUDPMessage with locals x has fetched, marked and sent
Handled(x) == x.pc = "commit" /\ x.calls # << >>

\* C25 (as stated): when handleUDPMessage is through with a valid datagram,
\* every distinct merged endpoint has been sent, once.
C25_EveryMergedEndpointEmitted ==
    \A r \in DOMAIN rx :
        Handled(rx[r]) => Len(rx[r].sent) = Cardinality(rx[r].endpoints)

\* C25 (amended): the getMetadata calls are made for the repaired XAddrs in
\* list order, each with the device address of the datagram; nothing is
\* sent before all of them have returned and the address is marked known;
\* then every merged endpoint whose URL passes zone repair is sent exactly
\* once, and one whose URL fails it is not sent.
C25_FetchMarkEmitInOrder ==
    \A r \in DOMAIN rx :
        LET x == rx[r]
            n == Len(x.xaddrs)
        IN  /\ Len(x.calls) <= n
            /\ \A k \in DOMAIN x.calls :
                  x.calls[k].xaddr = x.xaddrs[k] /\ x.calls[k].to = x.address
            /\ x.pc = "fetch" => Len(x.calls) = x.i - 1 /\ x.sent = << >>
            /\ x.pc \in {"mark", "markCS"} =>
                  Len(x.calls) = n /\ x.sent = << >>
            /\ (x.pc = "emit" \/ x.sent # << >>) =>
                  Len(x.calls) = n /\ x.address \in wsddFound
            /\ \A a, b \in DOMAIN x.sent : x.sent[a] = x.sent[b] => a = b
            /\ \A a \in DOMAIN x.sent :
                  \E e \in x.endpoints :
                      Emittable(x, e) /\ x.sent[a] = Emitted(x, e)
            /\ Handled(x) =>
                  /\ Len(x.calls) = n
                  /\ \A e \in x.endpoints :
                        Emittable(x, e) =>
                            \E a \in DOMAIN x.sent : x.sent[a] = Emitted(x, e)

\* handleUDPMessage is through with a datagram of two XAddrs: two fetches,
\* the address marked, two endpoints sent and one dropped
C25_Witness ==
    \E r \in DOMAIN rx :
        /\ Handled(rx[r]) /\ Len(rx[r].calls) = 2
        /\ rx[r].address \in wsddFound
        /\ Len(rx[r].sent) = 2 /\ Cardinality(rx[r].endpoints) = 3

LastEntry(d, f) ==
    LET with == {k \in DOMAIN d.entries : d.entries[k][f]}
    IN  IF with = {} THEN 0 ELSE CHOOSE k \in with : \A l \in with : l <= k

\* the Types text the validation uses
TypesOf(d) ==
    IF LastEntry(d, "hasTypes") = 0 THEN << >>
    ELSE TrimSpace(d.entries[LastEntry(d, "hasTypes")].types)

\* the XAddr tokens of all the entries, in the order of the datagram
RECURSIVE TokensOf(_)
TokensOf(entries) ==
    IF entries = << >> THEN << >>
    ELSE Head(entries).tokens \o TokensOf(Tail(entries))

\* the datagram passes the checks of handleUDPMessage on a socket of the
\* zone
Valid(d, zone) ==
    /\ ~d.broken
    /\ d.action \in {ActProbeMatches, ActProbeMatchesS}
    /\ Repaired(TokensOf(d.entries), zone) # << >>
    /\ \E k \in DOMAIN TypesOf(d) : TypesOf(d)[k] = "ScanDeviceType"
    /\ DeviceAddress(d) # << >>

\* C27: the known set changes only when the address of a datagram that
\* passed every check, and was not known at the check, is added to it; a
\* datagram that fails a check leaves it as it is, a valid datagram whose
\* address is not in it is processed, and the empty address is never in it.
C27_OnlyValidatedAddressesAdded ==
    /\ [][wsddFound' # wsddFound =>
            \E r \in DOMAIN rx :
                /\ rx[r].pc = "markCS" /\ rx'[r].pc # "markCS"
                /\ Valid(rx[r].msg, rx[r].zone)
                /\ DeviceAddress(rx[r].msg) \notin rx[r].knownAtCheck
                /\ wsddFound' = wsddFound \cup {DeviceAddress(rx[r].msg)}]_vars
    /\ [](<< >> \notin wsddFound)
    /\ [](\A r \in DOMAIN rx :
            (/\ rx[r].pc = "commit"
             /\ Valid(rx[r].msg, rx[r].zone)
             /\ DeviceAddress(rx[r].msg) \notin rx[r].knownAtCheck)
            => Handled(rx[r]) /\ DeviceAddress(rx[r].msg) \in wsddFound)
    /\ [](\A r \in DOMAIN rx :
            (rx[r].pc = "commit" /\ ~Valid(rx[r].msg, rx[r].zone))
            => rx[r].calls = << >>)

\* a Hello that carries everything else a valid ProbeMatches has was
\* discarded, and its address is not in the set
C27_Witness ==
    \E r \in DOMAIN rx :
        /\ rx[r].pc = "commit" /\ rx[r].msg.action = ActHello
        /\ Len(rx[r].xaddrs) = 1
        /\ StrIndex(rx[r].types, "ScanDeviceType") >= 0
        /\ rx[r].address = AddrAbc
        /\ AddrAbc \notin wsddFound

\* C30: of a datagram with several entries handleUDPMessage takes the
\* address of the last entry that has one, the Types of the last entry
\* that has them and the repaired XAddrs of all entries in their order;
\* the getMetadata calls are made for these XAddrs with that address, and
\* that address alone is marked known.
C30_SeveralEntriesOneDevice ==
    /\ [](\A r \in DOMAIN rx :
            (rx[r].pc # "recv" /\ ~rx[r].msg.broken) =>
                /\ rx[r].address = DeviceAddress(rx[r].msg)
                /\ rx[r].types = TypesOf(rx[r].msg)
                /\ rx[r].xaddrs =
                      Repaired(TokensOf(rx[r].msg.entries), rx[r].zone)
                /\ \A k \in DOMAIN rx[r].calls :
                      /\ rx[r].calls[k].xaddr = rx[r].xaddrs[k]
                      /\ rx[r].calls[k].to = DeviceAddress(rx[r].msg)
                /\ Handled(rx[r]) => Len(rx[r].calls) = Len(rx[r].xaddrs))
    /\ [][\A r \in DOMAIN rx :
            (rx[r].pc = "markCS" /\ rx'[r].pc # "markCS") =>
                wsddFound' \ wsddFound \subseteq {DeviceAddress(rx[r].msg)}]_vars

\* a datagram of a scanner entry with one address followed by an entry
\* without Types with another address: two fetches with the address of the
\* second entry, which alone is marked
C30_Witness ==
    \E r \in DOMAIN rx :
        /\ Handled(rx[r]) /\ Len(rx[r].msg.entries) = 2
        /\ rx[r].msg.entries[1].address = AddrAbc
        /\ rx[r].msg.entries[2].address = AddrDef
        /\ ~rx[r].msg.entries[2].hasTypes
        /\ Len(rx[r].calls) = 2
        /\ rx[r].calls[1].to = AddrDef /\ rx[r].calls[2].to = AddrDef
        /\ wsddFound = {AddrDef}

\* the receiver r has its fetch sequence for the address a behind it
SequenceDone(r, a) ==
    /\ r \in DOMAIN rx
    /\ rx[r].pc \in {"emit", "commit"}
    /\ Handled(rx[r]) /\ rx[r].address = a

\* the receiver r fetches for, or marks, the address a
InSequence(r, a) ==
    /\ r \in DOMAIN rx
    /\ rx[r].pc \in {"fetch", "mark", "markCS"}
    /\ rx[r].address = a

\* C28: a receiver takes a datagram only when the call for the one before
\* has returned, with nothing left to fetch or to send; a receiver that
\* has completed the fetch sequence for an address never runs one for it
\* again; and the fetch sequences completed for one address are at most as
\* many as the sockets bound.
C28_OneSequencePerReceiver ==
    /\ [](\A r \in DOMAIN rx :
            rx[r].pc = "recv" => rx[r] = Idle(zones[r]))
    /\ [][\A r \in DOMAIN rx :
            rx'[r].msg # rx[r].msg =>
                \/ rx[r].pc = "recv" /\ rx'[r].pc # "recv"
                \/ rx[r].pc = "commit" /\ rx[r].todo = {}
                   /\ rx'[r].pc = "recv"]_vars
    /\ [](Len(rx) <= Len(conns))
    /\ [](\A a \in DOMAIN seqDone : seqDone[a] <= Len(conns))
    /\ \A r \in 1 .. 2 : \A a \in {AddrAbc} :
          [](SequenceDone(r, a) => [](~InSequence(r, a)))

\* both receivers of a host with two sockets have completed the fetch
\* sequence for the one address, and are reading again
C28_Witness ==
    /\ Len(conns) = 2 /\ Len(rx) = 2
    /\ Count(seqDone, AddrAbc) = 2
    /\ \A r \in DOMAIN rx : rx[r].pc = "recv"

\* C29: every endpoint a call of handleUDPMessage has sent has Proto "wsd",
\* a name that is not empty and an absolute URL, and is a merged endpoint
\* with its URL as the zone repair with the zone of the socket returned
\* it; a merged endpoint whose URL fails the repair is not among the sent
\* ones when the call is through, and every other merged endpoint is.
C29_SentEndpointsWellFormed ==
    \A r \in DOMAIN rx :
        LET x == rx[r]
            ok == {e \in x.endpoints : Emittable(x, e)}
        IN  /\ \A a \in DOMAIN x.sent :
                  /\ x.sent[a].Proto = "wsd"
                  /\ x.sent[a].Name # << >>
                  /\ URLParse(x.sent[a].URL).err = ""
                  /\ URLParse(x.sent[a].URL).Scheme # ""
                  /\ x.sent[a] \in {Emitted(x, e) : e \in ok}
                  /\ x.sent[a] \in received
            /\ Handled(x) =>
                  /\ {x.sent[a] : a \in DOMAIN x.sent} =
                        {Emitted(x, e) : e \in ok}
                  /\ \A e \in x.endpoints \ ok :
                        \A a \in DOMAIN x.sent :
                            x.sent[a].URL # e.URL

\* a device answered with a scanner service at a relative address and one
\* at a link-local address: the call is through, the first was dropped and
\* the second sent with the zone of the socket in its URL
C29_Witness ==
    \E r \in DOMAIN rx :
        /\ Handled(rx[r])
        /\ \E e \in rx[r].endpoints : e.URL = UrlRelative
        /\ \E a \in DOMAIN rx[r].sent :
              /\ rx[r].sent[a].URL = fixIpv6URLZone(UrlLinkLocal, "eth0").url
              /\ rx[r].sent[a].URL # UrlLinkLocal


====
